---- MODULE Spec2Model ----
(***************************************************************************)
(* A model of the pull-request dashboard's GitHub client                   *)
(* (src/unnamed/part_000, the second, current version of the file:         *)
(* lines 258-718).                                                         *)
(*                                                                         *)
(* Specifications:                                                         *)
(*   SpecClassify  calculatePRStatus / processPR as pure functions of a    *)
(*                 pull request, the viewer's login and the clock;         *)
(*   SpecFormat    formatRelativeTime as a pure function of the elapsed    *)
(*                 time;                                                   *)
(*   SpecStorage   calls of the token storage (src/lib/token-storage.ts,   *)
(*                 the crypto module of src/unnamed/part_001) on the       *)
(*                 browser's localStorage, one after the other;            *)
(*   SpecDashboard one life of the PRDashboard component                   *)
(*                 (src/components/pr-dashboard.tsx): its mount effects,   *)
(*                 its handlers, the refresh timer and its fetches;        *)
(*   SpecSettings  the repository part of the settings dialog              *)
(*                 (src/unnamed/part_005): typing, adding and removing;    *)
(*   SpecTable     the pagination of PRDataTable (src/unnamed/part_003);   *)
(*   Spec          one fetchPullRequests pass: the viewer request, the     *)
(*                 concurrent per-repository list requests and per-PR      *)
(*                 review requests, the join, the flatten and the sort.    *)
(*                                                                         *)
(* Representation of JavaScript values:                                    *)
(*   - an ISO-8601 string is Iso(t), t the instant it names in             *)
(*     milliseconds since the model's epoch; null is Null;                 *)
(*   - a relative-age label ("just now", "5m ago") is RelLabel(n, unit);   *)
(*   - a number that may be NaN is Num(n) or NaN;                          *)
(*   - an optional array is Undefined or Arr(seq).                         *)
(***************************************************************************)
EXTENDS Integers, Sequences, FiniteSets, TLC

VARIABLES
    clock,        \* the wall clock, as new Date() last read it
    \* ---- SpecClassify: one call of processPR ----
    cPR,          \* the GitHubPR given to processPR
    cUser,        \* the currentUser argument
    cOut,         \* the ProcessedPR returned (NoOutput before the call)
    cPc,          \* "idle" | "input" | "done"
    \* ---- SpecFormat: one call of formatRelativeTime ----
    fSecs,        \* whole seconds from the timestamp to the clock
    fMs,          \* the milliseconds beyond them (0..999)
    fOut,         \* the label returned (NoOutput before the call)
    fPc,          \* "idle" | "input" | "done"
    \* ---- SpecStorage: the token storage ----
    storage,      \* localStorage: the values under "github_token",
                  \* "github_token_encrypted" and "github_token_passphrase"
    fingerprint,  \* what generateSecurePassphrase() returns in this browser
    secure,       \* what isCryptoSupported() returns in this browser
    sLast,        \* the last call that completed: its name, argument and
                  \* result, and localStorage as it found it
    \* ---- SpecDashboard: the PRDashboard component ----
    githubToken,   \* useState: null or the token
    watchedRepos,  \* useState: the watched repositories
    prsShown,      \* useState prs: the list shown
    isLoading,     \* useState
    errorText,     \* useState error: null or the message shown
    lastRefresh,   \* useState: 0 for null, else the ordinal of the refresh
    currentLogin,  \* useState currentUser: null or the viewer's login
    loadData,      \* where loadData of the load effect stands
    saving,        \* the tokens of storeTokenSecurely calls still encrypting
    fetches,       \* the fetchPRs calls that passed the guard, in start order
    interval,      \* the setInterval of the auto-refresh effect
    event,         \* what ran last: the mount, a handler, the timer, a continuation
    storedAtMount, \* the token getStoredToken would have given at mount
    handled,       \* how many user events and timer ticks were handled
    \* ---- SpecSettings: the RepositorySettings dialog ----
    newRepo,        \* useState: the text of the repository input
    settingsError,  \* useState error of the dialog: "" or the message shown
    settingsEvent,  \* the handler of the dialog that ran last, and its argument
    \* ---- SpecTable: the PRDataTable component ----
    tablePrs,       \* the prs prop
    currentPage,    \* useState
    \* ---- Spec: one fetchPullRequests pass ----
    token,        \* the token argument
    repos,        \* the repos argument
    phase,        \* "Idle" | "FetchingViewer" | "FetchingRepos" | "Done" | "Failed"
    viewerReq,    \* the GET /user request: "none" | "inflight" | "settled", its response
    viewer,       \* const currentUser: the GitHubUser of GET /user (Undefined before)
    branch,       \* per index of repos: the async callback of repos.map
    reqCount,     \* outbound requests issued so far, per endpoint
    returned,     \* the array fetchPullRequests resolved to, once phase is "Done"
    thrown        \* the error fetchPullRequests rejected with (NoError otherwise)

classifyVars == <<cPR, cUser, cOut, cPc>>

passVars == <<token, repos, phase, viewerReq, viewer, branch, reqCount,
              returned, thrown>>

formatVars == <<fSecs, fMs, fOut, fPc>>

storeVars == <<storage, fingerprint, secure, sLast>>
dashVars == <<githubToken, watchedRepos, prsShown, isLoading, errorText, lastRefresh,
              currentLogin, loadData, saving, fetches, interval, event,
              storedAtMount, handled>>

settingsVars == <<newRepo, settingsError, settingsEvent>>
tableVars == <<tablePrs, currentPage>>

\* What a step of one specification leaves alone.
besidePass == <<classifyVars, formatVars, storeVars, dashVars, settingsVars, tableVars>>
besideClassify == <<passVars, formatVars, storeVars, dashVars, settingsVars, tableVars>>
besideFormat == <<clock, classifyVars, passVars, storeVars, dashVars, settingsVars, tableVars>>
besideStorage == <<clock, classifyVars, formatVars, passVars, dashVars, settingsVars, tableVars>>
besideDashboard == <<clock, classifyVars, formatVars, passVars, fingerprint,
                     secure, sLast, settingsVars, tableVars>>
besideSettings == <<clock, classifyVars, formatVars, passVars, storeVars,
                    githubToken, prsShown, isLoading, errorText, lastRefresh,
                    currentLogin, loadData, saving, fetches, interval, event,
                    storedAtMount, handled, tableVars>>
besideTable == <<clock, classifyVars, formatVars, passVars, storeVars, dashVars,
                 settingsVars>>

vars == <<clock, classifyVars, formatVars, storeVars, dashVars, settingsVars,
          tableVars, passVars>>

-----------------------------------------------------------------------------
(* Time *)

MsPerSecond == 1000
MsPerMinute == 60 * MsPerSecond
MsPerHour == 60 * MsPerMinute
MsPerDay == 1000 * 60 * 60 * 24

\* "Stagnant: no updates in 5+ days"
StagnantDays == 5

\* The clock when a behaviour starts (instants are offsets from the model's epoch).
Now0 == 10 * MsPerDay

-----------------------------------------------------------------------------
(* JavaScript values *)

Iso(t) == <<"iso", t>>
Null == <<"null">>
RelLabel(n, unit) == <<"rel", n, unit>>

NaN == [nan |-> TRUE, v |-> 0]
Num(n) == [nan |-> FALSE, v |-> n]

Undefined == <<"undefined">>
Arr(s) == <<"array", s>>

\* if (x): null and undefined are falsy, a non-empty string is truthy.
Truthy(x) == x[1] \notin {"null", "undefined"}

\* new Date(s).getTime(): the instant of an ISO-8601 string; NaN (Invalid Date)
\* for a string that is no date, such as a relative-age label or null's "null".
DateGetTime(s) == IF s[1] = "iso" THEN Num(s[2]) ELSE NaN

\* a - b on numbers: NaN if either is NaN.
NumSub(a, b) == IF a.nan \/ b.nan THEN NaN ELSE Num(a.v - b.v)

\* a > b on numbers (and on Dates, compared by their time value): false with NaN.
NumGt(a, b) == ~a.nan /\ ~b.nan /\ a.v > b.v

\* Array.prototype.sort(comparefn): stable, a NaN comparison result counts as +0.
\* For a comparator that is a total preorder, element i lands after every j
\* that compares smaller, and after every earlier j that compares equal.
SortOrder(c) == IF c.nan THEN 0 ELSE c.v

\* s.sort(comparefn), with cmp[j][i] the value of comparefn(s[j], s[i]).
ArraySort(s, cmp) ==
    LET rank(i) == 1 + Cardinality({j \in 1..Len(s) :
                        \/ SortOrder(cmp[j][i]) < 0
                        \/ SortOrder(cmp[j][i]) = 0 /\ j < i})
    IN [k \in 1..Len(s) |-> s[CHOOSE i \in 1..Len(s) : rank(i) = k]]

-----------------------------------------------------------------------------
(* formatRelativeTime *)

\* Mutant: the weeks run up to a month of 30 days.
FormatSeconds_WeeksUpToAMonth(diffInSeconds) ==
    IF diffInSeconds < 60 THEN RelLabel(0, "just now")
    ELSE LET diffInMinutes == diffInSeconds \div 60 IN
    IF diffInMinutes < 60 THEN RelLabel(diffInMinutes, "m ago")
    ELSE LET diffInHours == diffInMinutes \div 60 IN
    IF diffInHours < 24 THEN RelLabel(diffInHours, "h ago")
    ELSE LET diffInDays == diffInHours \div 24 IN
    IF diffInDays < 7 THEN RelLabel(diffInDays, "d ago")
    ELSE IF diffInDays < 30 THEN RelLabel(diffInDays \div 7, "w ago")
    ELSE RelLabel(diffInDays \div 30, "mo ago")

\* The label for diffInSeconds whole elapsed seconds.
FormatSeconds(diffInSeconds) ==
    IF diffInSeconds < 60 THEN RelLabel(0, "just now")
    ELSE LET diffInMinutes == diffInSeconds \div 60 IN
    IF diffInMinutes < 60 THEN RelLabel(diffInMinutes, "m ago")
    ELSE LET diffInHours == diffInMinutes \div 60 IN
    IF diffInHours < 24 THEN RelLabel(diffInHours, "h ago")
    ELSE LET diffInDays == diffInHours \div 24 IN
    IF diffInDays < 7 THEN RelLabel(diffInDays, "d ago")
    ELSE LET diffInWeeks == diffInDays \div 7 IN
    IF diffInWeeks < 4 THEN RelLabel(diffInWeeks, "w ago")
    ELSE RelLabel(diffInDays \div 30, "mo ago")

\* formatRelativeTime(dateString) with the clock at now. An invalid date makes
\* every comparison false, so the last branch is taken with a NaN count.
formatRelativeTime(dateString, now) ==
    LET diff == NumSub(Num(now), DateGetTime(dateString))
    IN IF diff.nan THEN RelLabel(0, "NaNmo ago")
       ELSE FormatSeconds(diff.v \div MsPerSecond)

-----------------------------------------------------------------------------
(* calculatePRStatus and processPR *)

\* Mutant: the reviewer's login is not compared, anybody's review counts.
UserReviews_AnyReviewer(pr, currentUser) ==
    IF pr.reviews = Undefined THEN <<>>
    ELSE LET keep(review) == /\ review.state # "DISMISSED"
                             /\ Truthy(review.submitted_at)
         IN SelectSeq(pr.reviews[2], keep)

\* Mutant: dismissed reviews are kept.
UserReviews_KeepsDismissed(pr, currentUser) ==
    IF pr.reviews = Undefined THEN <<>>
    ELSE LET keep(review) == /\ Truthy(review.submitted_at)
                             /\ review.user.login = currentUser
         IN SelectSeq(pr.reviews[2], keep)

\* pr.reviews?.filter(not DISMISSED, submitted_at, by currentUser) || []
UserReviews(pr, currentUser) ==
    IF pr.reviews = Undefined THEN <<>>
    ELSE LET keep(review) == /\ review.state # "DISMISSED"
                             /\ Truthy(review.submitted_at)
                             /\ review.user.login = currentUser
         IN SelectSeq(pr.reviews[2], keep)

\* (a, b) => new Date(b.submitted_at).getTime() - new Date(a.submitted_at).getTime()
BySubmittedDesc(a, b) ==
    NumSub(DateGetTime(b.submitted_at), DateGetTime(a.submitted_at))

\* Mutant: the comparator's operands are swapped, the oldest review comes first.
SortedUserReviews_OldestFirst(userReviews) ==
    LET submitted(review) == Truthy(review.submitted_at)
        kept == SelectSeq(userReviews, submitted)
    IN ArraySort(kept, [j \in 1..Len(kept) |-> [i \in 1..Len(kept) |->
                            BySubmittedDesc(kept[i], kept[j])]])

\* userReviews.filter((review) => review.submitted_at).sort(...)
SortedUserReviews(userReviews) ==
    LET submitted(review) == Truthy(review.submitted_at)
        kept == SelectSeq(userReviews, submitted)
    IN ArraySort(kept, [j \in 1..Len(kept) |-> [i \in 1..Len(kept) |->
                            BySubmittedDesc(kept[j], kept[i])]])

\* daysSinceUpdate >= 5, with daysSinceUpdate = (now - updatedAt) / 86400000:
\* on whole milliseconds the quotient reaches 5 exactly when the difference
\* reaches 5 * 86400000.
IsStagnant(pr, now) ==
    LET diff == NumSub(Num(now), DateGetTime(pr.updated_at))
    IN ~diff.nan /\ diff.v >= StagnantDays * MsPerDay

\* Mutant: the review history is consulted before the staleness check, which
\* only replaces "pending".
calculatePRStatus_ReviewsFirst(pr, currentUser, now) ==
    LET sorted == SortedUserReviews(UserReviews(pr, currentUser))
        updated == DateGetTime(pr.updated_at)
    IN IF Len(sorted) > 0 /\ NumGt(updated, DateGetTime(sorted[1].submitted_at))
       THEN "re-review"
       ELSE IF Len(sorted) > 0 /\ sorted[1].state = "APPROVED" THEN "reviewed"
       ELSE IF IsStagnant(pr, now) THEN "stagnant"
       ELSE "pending"

\* Mutant: an update at the very instant of the last review already counts as
\* newer (>= for >).
calculatePRStatus_UpdateNotBefore(pr, currentUser, now) ==
    LET sorted == SortedUserReviews(UserReviews(pr, currentUser))
        updated == DateGetTime(pr.updated_at)
    IN IF IsStagnant(pr, now) THEN "stagnant"
       ELSE IF Len(sorted) = 0 THEN "pending"
       ELSE IF ~NumGt(DateGetTime(sorted[1].submitted_at), updated) THEN "re-review"
       ELSE IF sorted[1].state = "APPROVED" THEN "reviewed"
       ELSE "pending"

\* Mutant: the state of the most recent review is not looked at, any review
\* that is not older than the update counts as an approval.
calculatePRStatus_AnyStateReviewed(pr, currentUser, now) ==
    LET sorted == SortedUserReviews(UserReviews(pr, currentUser))
        updated == DateGetTime(pr.updated_at)
    IN IF IsStagnant(pr, now) THEN "stagnant"
       ELSE IF Len(sorted) = 0 THEN "pending"
       ELSE IF NumGt(updated, DateGetTime(sorted[1].submitted_at)) THEN "re-review"
       ELSE "reviewed"

calculatePRStatus(pr, currentUser, now) ==
    IF IsStagnant(pr, now) THEN "stagnant"
    ELSE LET userReviews == UserReviews(pr, currentUser) IN
    IF Len(userReviews) = 0 THEN "pending"
    ELSE LET sorted == SortedUserReviews(userReviews) IN
    IF Len(sorted) = 0 THEN "pending"
    ELSE LET mostRecentUserReview == sorted[1]
             lastReviewDate == DateGetTime(mostRecentUserReview.submitted_at)
             prUpdatedDate == DateGetTime(pr.updated_at)
         IN IF NumGt(prUpdatedDate, lastReviewDate) THEN "re-review"
            ELSE IF mostRecentUserReview.state = "APPROVED" THEN "reviewed"
            ELSE "pending"

\* Mutant: the last review is looked up only for a pull request whose status
\* comes from a review.
processPR_NoReviewTimeUnlessReviewed(pr, repo, currentUser, now) ==
    LET sorted == SortedUserReviews(UserReviews(pr, currentUser))
        status == calculatePRStatus(pr, currentUser, now)
    IN [id |-> pr.id,
        repo |-> repo,
        number |-> pr.number,
        author |-> pr.user.login,
        status |-> status,
        updatedAt |-> formatRelativeTime(pr.updated_at, now),
        updatedAtTimestamp |-> pr.updated_at,
        createdAt |-> formatRelativeTime(pr.created_at, now),
        createdAtTimestamp |-> pr.created_at,
        lastReviewedByCurrentUser |->
            IF status \in {"reviewed", "re-review"} /\ Len(sorted) > 0
            THEN sorted[1].submitted_at ELSE Null]

processPR(pr, repo, currentUser, now) ==
    LET userReviews == UserReviews(pr, currentUser)
        sorted == SortedUserReviews(userReviews)
        lastReviewedByCurrentUser ==
            IF Len(userReviews) > 0 /\ Len(sorted) > 0 /\ Truthy(sorted[1].submitted_at)
            THEN sorted[1].submitted_at
            ELSE Null
    IN [id |-> pr.id,
        repo |-> repo,
        number |-> pr.number,
        author |-> pr.user.login,
        status |-> calculatePRStatus(pr, currentUser, now),
        updatedAt |-> formatRelativeTime(pr.updated_at, now),
        updatedAtTimestamp |-> pr.updated_at,
        createdAt |-> formatRelativeTime(pr.created_at, now),
        createdAtTimestamp |-> pr.created_at,
        lastReviewedByCurrentUser |-> lastReviewedByCurrentUser]

-----------------------------------------------------------------------------
(* Inputs of processPR *)

\* The longest review list of a pull request given to processPR.
MaxReviews == 2

Logins == {"octocat", "hubot"}

ReviewStates == {"APPROVED", "CHANGES_REQUESTED", "COMMENTED", "DISMISSED"}

\* Instants around the clock: a review can be before, at or after an update.
SubmittedAts == {Null, Iso(Now0 - 3 * MsPerHour), Iso(Now0 - MsPerHour)}

\* The 5-day threshold is met exactly, or missed by one millisecond until the
\* clock moves on.
UpdatedAts ==
    {Iso(Now0 - StagnantDays * MsPerDay), Iso(Now0 - StagnantDays * MsPerDay + 1),
     Iso(Now0 - 3 * MsPerHour), Iso(Now0 - 2 * MsPerHour)}

\* What new Date() can return during a call of processPR.
Nows == {Now0, Now0 + 1}

Reviews ==
    [state : ReviewStates, submitted_at : SubmittedAts, user : [login : Logins]]

SeqsUpTo(S, n) == UNION {[1..k -> S] : k \in 0..n}

ReviewLists == {Undefined} \cup {Arr(s) : s \in SeqsUpTo(Reviews, MaxReviews)}

NoOutput == <<"none">>

-----------------------------------------------------------------------------
(* The provider: responses of the GitHub REST API *)

\* A repository reference "owner/name" is the sequence of its segments between
\* slashes, which is what repo.split("/") returns.
RepoAlpha == <<"octo", "alpha">>
RepoBeta == <<"octo", "beta">>
RepoNoSlash == <<"octo">>
\* "/alpha", "octo/" and "octo/alpha/extra"
RepoEmptyOwner == <<"", "alpha">>
RepoEmptyName == <<"octo", "">>
RepoThreeSegments == <<"octo", "alpha", "extra">>

\* A string, for a message or a header value.
Str(x) == <<"str", x>>

\* fetch() resolved with a 2xx response whose body parses to body.
OkResponse(body) ==
    [kind |-> "ok", status |-> 200, body |-> body, message |-> Null, rateLimit |-> Null]
\* fetch() resolved with a non-2xx response: the body's message (Null when the
\* body has none or does not parse), the X-RateLimit-Remaining header (Null
\* when absent, else the decimal string of a number).
HttpError(status, message, rateLimit) ==
    [kind |-> "http", status |-> status, body |-> Null, message |-> message,
     rateLimit |-> rateLimit]
\* fetch() rejected (network failure), or a 2xx body that response.json() rejects.
Throws(why) ==
    [kind |-> "throws", status |-> 0, body |-> Null, message |-> Str(why),
     rateLimit |-> Null]

\* No response (no request was sent).
NoResponse ==
    [kind |-> "none", status |-> 0, body |-> Null, message |-> Null, rateLimit |-> Null]

ViewerResponses ==
    {OkResponse([login |-> l]) : l \in Logins}
    \cup {HttpError(401, Str("Bad credentials"), Null),
          HttpError(403, Null, Null),
          Throws("Failed to fetch")}

\* The review list GET .../pulls/{number}/reviews answers with.
ViewerApproval ==
    [state |-> "APPROVED", submitted_at |-> Iso(Now0 - 90 * MsPerMinute),
     user |-> [login |-> "octocat"]]

ReviewResponses ==
    {OkResponse(<<ViewerApproval>>), OkResponse(<<>>),
     HttpError(500, Null, Null), Throws("Failed to fetch")}

\* The open pull requests of a repository, most recently updated first (the
\* list request asks for sort=updated&direction=desc), all opened by hubot:
\* one in octo/beta, three elsewhere. The list payload of the second one
\* carries a reviews field of its own (GitHubPR.reviews is optional).
PullRequest(n, updated, reviews) ==
    [id |-> 100 + n, number |-> n, draft |-> FALSE, user |-> [login |-> "hubot"],
     created_at |-> Iso(Now0 - 6 * MsPerDay), updated_at |-> Iso(updated),
     reviews |-> reviews]

OpenPRs(repo) ==
    IF Len(repo) >= 2 /\ repo[1] = "octo" /\ repo[2] = "beta"
    THEN <<PullRequest(1, Now0 - MsPerHour, Undefined)>>
    ELSE <<PullRequest(1, Now0 - MsPerHour, Undefined),
           PullRequest(2, Now0 - MsPerHour, Arr(<<ViewerApproval>>)),
           PullRequest(3, Now0 - StagnantDays * MsPerDay + 30 * MsPerMinute, Undefined)>>

\* The longest list a list request answers with.
MaxPRs == 2

\* The subsequences of s with at most n elements.
SubSeqsUpTo(s, n) ==
    LET pick(I) == [k \in 1..Cardinality(I) |->
                      s[CHOOSE i \in I : Cardinality({j \in I : j < i}) = k - 1]]
    IN {pick(I) : I \in {J \in SUBSET (1..Len(s)) : Cardinality(J) <= n}}

\* What GET /repos/{owner}/{name}/pulls can answer: any MaxPRs of the
\* repository's open pull requests, or a failure.
ListResponses(repo) ==
    {OkResponse(prs) : prs \in SubSeqsUpTo(OpenPRs(repo), MaxPRs)}
    \cup {HttpError(404, Str("Not Found"), Null),
          HttpError(403, Null, Str("0")),
          Throws("Failed to fetch")}

-----------------------------------------------------------------------------
(* Errors *)

GitHubAPIError(message, status, rateLimitRemaining) ==
    [name |-> "GitHubAPIError", message |-> message, status |-> status,
     rateLimitRemaining |-> rateLimitRemaining]

\* new Error(message), and the TypeError / SyntaxError of fetch and json().
PlainError(message) ==
    [name |-> "Error", message |-> message, status |-> 0,
     rateLimitRemaining |-> Undefined]

\* Nothing thrown (yet).
NoError ==
    [name |-> "none", message |-> Null, status |-> 0, rateLimitRemaining |-> Undefined]

\* Mutant: whatever was caught is rethrown as it is.
CatchFetchPullRequests_RethrowsAll(error) == error

\* catch (error) of fetchPullRequests: a GitHubAPIError is rethrown, anything
\* else is wrapped with status 500.
CatchFetchPullRequests(error) ==
    IF error.name = "GitHubAPIError" THEN error
    ELSE GitHubAPIError(<<"Failed to fetch pull requests: ", error.message>>, 500,
                        Undefined)

\* Mutant: the provider's status is dropped, every failure reports 500.
GetCurrentUserError_Always500(resp) ==
    GitHubAPIError(<<"Failed to fetch user information: ", resp.message>>, 500,
                   Undefined)

\* What getCurrentUser throws for a response that is not a parsed 2xx.
GetCurrentUserError(resp) ==
    IF resp.kind = "http"
    THEN GitHubAPIError(IF Truthy(resp.message) THEN resp.message
                        ELSE Str("Failed to fetch user information"),
                        resp.status, Undefined)
    ELSE GitHubAPIError(<<"Failed to fetch user information: ", resp.message>>, 500,
                        Undefined)

\* The decimal strings of the quotas a X-RateLimit-Remaining header writes.
Decimal == (0 :> "0") @@ (42 :> "42")

\* parseInt(s): the number a decimal string writes, NaN for any other string.
ParseInt(s) ==
    IF \E n \in DOMAIN Decimal : Decimal[n] = s
    THEN Num(CHOOSE n \in DOMAIN Decimal : Decimal[n] = s)
    ELSE NaN

\* What the repos.map callback throws for a list response that is not a parsed 2xx.
ListError(resp, repo) ==
    IF resp.kind = "http"
    THEN GitHubAPIError(IF Truthy(resp.message) THEN resp.message
                        ELSE <<"Failed to fetch PRs for ", repo>>,
                        resp.status,
                        IF Truthy(resp.rateLimit) THEN ParseInt(resp.rateLimit[2])
                        ELSE Undefined)
    ELSE PlainError(resp.message)

-----------------------------------------------------------------------------
(* fetchPullRequests *)

Tokens == {"", "ghp_token"}

RepoLists ==
    {<<>>, <<RepoAlpha>>, <<RepoAlpha, RepoBeta>>, <<RepoAlpha, RepoNoSlash>>,
     <<RepoBeta, RepoBeta>>, <<RepoEmptyOwner>>, <<RepoEmptyName>>,
     <<RepoThreeSegments>>}

\* const [owner, repoName] = repo.split("/"); if (!owner || !repoName) throw
Owner(repo) == IF Len(repo) >= 1 THEN repo[1] ELSE ""
RepoName(repo) == IF Len(repo) >= 2 THEN repo[2] ELSE ""
ValidRepo(repo) == Owner(repo) # "" /\ RepoName(repo) # ""

\* The callback of repos.map for one repository.
\*   st      "list": the list request is in flight; "reviews": the review
\*           requests are; "resolved" / "rejected": the promise has settled
\*   resp    the response of the list request
\*   revResp the responses of the review requests, per pull request of the list
\*   revDone the review requests that have settled
\*   prs     prsWithReviews, as far as the review requests have settled
\*   out     processedPRs, once resolved
\*   err     the error thrown, once rejected
Branch(st, resp, revResp, revDone, prs, out, err) ==
    [st |-> st, resp |-> resp, revResp |-> revResp, revDone |-> revDone,
     prs |-> prs, out |-> out, err |-> err]

\* (a, b) => new Date(b.updatedAt).getTime() - new Date(a.updatedAt).getTime()
ByUpdatedAtDesc(a, b) ==
    NumSub(DateGetTime(b.updatedAt), DateGetTime(a.updatedAt))

RECURSIVE Flatten(_)
\* results.forEach((prs) => allPRs.push(...prs))
Flatten(results) ==
    IF Len(results) = 0 THEN <<>>
    ELSE Head(results) \o Flatten(Tail(results))

\* Mutant: only the last callback's pull requests are kept.
Aggregate_LastBranchOnly(b) ==
    LET allPRs == b[Len(repos)].out
    IN ArraySort(allPRs, [j \in 1..Len(allPRs) |-> [i \in 1..Len(allPRs) |->
                              ByUpdatedAtDesc(allPRs[j], allPRs[i])]])

\* The flatten and the sort that follow await Promise.all(promises).
Aggregate(b) ==
    LET allPRs == Flatten([i \in 1..Len(repos) |-> b[i].out])
    IN ArraySort(allPRs, [j \in 1..Len(allPRs) |-> [i \in 1..Len(allPRs) |->
                              ByUpdatedAtDesc(allPRs[j], allPRs[i])]])

\* Mutant: a rejected callback is not noticed, the pass waits for ever.
SettlePass_NeverRejects(b, i) ==
    IF phase = "FetchingRepos" /\ \A k \in 1..Len(repos) : b[k].st = "resolved"
    THEN /\ phase' = "Done"
         /\ returned' = Aggregate(b)
         /\ UNCHANGED thrown
    ELSE UNCHANGED <<phase, returned, thrown>>

\* Mutant: Promise.allSettled for Promise.all; the pass waits for every
\* callback and returns what the resolved ones produced.
SettlePass_AllSettled(b, i) ==
    IF phase = "FetchingRepos"
       /\ \A k \in 1..Len(repos) : b[k].st \in {"resolved", "rejected"}
    THEN /\ phase' = "Done"
         /\ returned' = Aggregate(b)
         /\ UNCHANGED thrown
    ELSE UNCHANGED <<phase, returned, thrown>>

\* What a settled callback does to the pass. Promise.all rejects with the first
\* rejection and resolves when every callback has resolved; the continuation
\* (flatten, sort, return; or catch and throw) runs in the same turn. A pass
\* that has already thrown is not affected: the other callbacks keep running.
SettlePass(b, i) ==
    IF phase # "FetchingRepos" THEN UNCHANGED <<phase, returned, thrown>>
    ELSE IF b[i].st = "rejected"
    THEN /\ phase' = "Failed"
         /\ thrown' = CatchFetchPullRequests(b[i].err)
         /\ UNCHANGED returned
    ELSE IF \A k \in 1..Len(repos) : b[k].st = "resolved"
    THEN /\ phase' = "Done"
         /\ returned' = Aggregate(b)
         /\ UNCHANGED thrown
    ELSE UNCHANGED <<phase, returned, thrown>>

IdleClassify ==
    /\ cPR = Undefined
    /\ cUser = ""
    /\ cOut = NoOutput
    /\ cPc = "idle"

\* localStorage without any of the three keys; no call made yet.
EmptyStorage == [plain |-> Null, enc |-> Null, pass |-> Null]
NoCall ==
    [op |-> "none", arg |-> Null, ret |-> Undefined, migrated |-> FALSE,
     before |-> EmptyStorage]

IdleStorage ==
    /\ storage = EmptyStorage
    /\ fingerprint = ""
    /\ secure = TRUE
    /\ sLast = NoCall

\* The table before it is rendered.
IdleTable ==
    /\ tablePrs = <<>>
    /\ currentPage = 1

\* The dialog as it opens: nothing typed, no message.
IdleSettings ==
    /\ newRepo = ""
    /\ settingsError = ""
    /\ settingsEvent = [op |-> "none", arg |-> ""]

\* useState initial values; no effect has run.
NoInterval == [armed |-> FALSE, token |-> Null, repos |-> <<>>]

IdleDashboard ==
    /\ githubToken = Null
    /\ watchedRepos = <<>>
    /\ prsShown = <<>>
    /\ isLoading = FALSE
    /\ errorText = Null
    /\ lastRefresh = 0
    /\ currentLogin = Null
    /\ loadData = [pc |-> "unmounted", pending |-> Null, got |-> Null]
    /\ saving = {}
    /\ fetches = <<>>
    /\ interval = NoInterval
    /\ event = "none"
    /\ storedAtMount = Null
    /\ handled = 0

IdleFormat ==
    /\ fSecs = 0
    /\ fMs = 0
    /\ fOut = NoOutput
    /\ fPc = "idle"

Init ==
    /\ clock = Now0
    /\ IdleClassify
    /\ IdleFormat
    /\ IdleStorage
    /\ IdleDashboard
    /\ IdleSettings
    /\ IdleTable
    /\ token = ""
    /\ repos = <<>>
    /\ phase = "Idle"
    /\ viewerReq = [st |-> "none", resp |-> NoResponse]
    /\ viewer = Undefined
    /\ branch = <<>>
    /\ reqCount = [user |-> 0, pulls |-> 0, reviews |-> 0]
    /\ returned = <<>>
    /\ thrown = NoError

\* Mutant: the two guards in the other order.
CallOutcome_ReposFirst(t, rs) ==
    IF Len(rs) = 0 THEN "return"
    ELSE IF t = "" THEN "throw"
    ELSE "fetch"

\* Mutant: no guard for the empty repository list.
CallOutcome_NoEmptyGuard(t, rs) ==
    IF t = "" THEN "throw" ELSE "fetch"

\* The two guards at the head of fetchPullRequests.
CallOutcome(t, rs) ==
    IF t = "" THEN "throw"
    ELSE IF Len(rs) = 0 THEN "return"
    ELSE "fetch"

\* fetchPullRequests(repos, token) up to its first await: the two guards, then
\* getCurrentUser(token), which sends GET /user.
Call ==
    /\ phase = "Idle"
    /\ \E t \in Tokens, rs \in RepoLists :
        /\ token' = t
        /\ repos' = rs
        /\ IF CallOutcome(t, rs) = "throw"
           THEN /\ phase' = "Failed"
                /\ thrown' = GitHubAPIError(Str("GitHub token is required"), 401,
                                            Undefined)
                /\ UNCHANGED <<viewerReq, reqCount, returned>>
           ELSE IF CallOutcome(t, rs) = "return"
           THEN /\ phase' = "Done"
                /\ returned' = <<>>
                /\ UNCHANGED <<viewerReq, reqCount, thrown>>
           ELSE /\ phase' = "FetchingViewer"
                /\ \E resp \in ViewerResponses :
                     viewerReq' = [st |-> "inflight", resp |-> resp]
                /\ reqCount' = [reqCount EXCEPT !.user = @ + 1]
                /\ UNCHANGED <<returned, thrown>>
    /\ UNCHANGED <<clock, besidePass, viewer, branch>>

\* The callbacks of repos.map up to their first await: a malformed reference
\* throws, any other sends its list request.
StartBranches(listResp) ==
    [i \in 1..Len(repos) |->
        IF ValidRepo(repos[i])
        THEN Branch("list", listResp[i], <<>>, {}, <<>>, <<>>, NoError)
        ELSE Branch("rejected", NoResponse, <<>>, {}, <<>>, <<>>,
                    PlainError(<<"Invalid repository format: ", repos[i]>>))]

\* GET /user settles. On success every callback of repos.map runs to its first
\* await, and Promise.all sees the callbacks that have already thrown.
ViewerSettles ==
    /\ phase = "FetchingViewer"
    /\ viewerReq.st = "inflight"
    /\ viewerReq' = [viewerReq EXCEPT !.st = "settled"]
    /\ IF viewerReq.resp.kind = "ok"
       THEN /\ viewer' = viewerReq.resp.body
            /\ \E listResp \in [1..Len(repos) ->
                                  UNION {ListResponses(repos[i]) : i \in 1..Len(repos)}] :
                 /\ \A i \in 1..Len(repos) : listResp[i] \in ListResponses(repos[i])
                 /\ branch' = StartBranches(listResp)
            /\ reqCount' = [reqCount EXCEPT !.pulls =
                 @ + Cardinality({i \in 1..Len(repos) : ValidRepo(repos[i])})]
            /\ IF \E i \in 1..Len(repos) : ~ValidRepo(repos[i])
               THEN LET first == CHOOSE i \in 1..Len(repos) :
                                   /\ ~ValidRepo(repos[i])
                                   /\ \A k \in 1..(i - 1) : ValidRepo(repos[k])
                    IN /\ phase' = "Failed"
                       /\ thrown' = CatchFetchPullRequests(
                            PlainError(<<"Invalid repository format: ", repos[first]>>))
               ELSE /\ phase' = "FetchingRepos"
                    /\ UNCHANGED thrown
       ELSE /\ phase' = "Failed"
            /\ thrown' = CatchFetchPullRequests(GetCurrentUserError(viewerReq.resp))
            /\ UNCHANGED <<viewer, branch, reqCount>>
    /\ UNCHANGED <<clock, besidePass, token, repos, returned>>

\* The list request of repos[i] settles (response and body). A 2xx list sends
\* one review request per pull request; anything else rejects the callback.
ListSettles(i) ==
    /\ i \in 1..Len(branch)
    /\ branch[i].st = "list"
    /\ LET resp == branch[i].resp
           prs == resp.body
       IN IF resp.kind = "ok"
          THEN IF Len(prs) = 0
               THEN /\ branch' = [branch EXCEPT ![i].st = "resolved"]
                    /\ UNCHANGED reqCount
               ELSE /\ \E revResp \in [1..Len(prs) -> ReviewResponses] :
                         branch' = [branch EXCEPT ![i].st = "reviews",
                                                  ![i].revResp = revResp,
                                                  ![i].prs = prs]
                    /\ reqCount' = [reqCount EXCEPT !.reviews = @ + Len(prs)]
          ELSE /\ branch' = [branch EXCEPT ![i].st = "rejected",
                                           ![i].err = ListError(resp, repos[i])]
               /\ UNCHANGED reqCount
    /\ SettlePass(branch', i)
    /\ UNCHANGED <<clock, besidePass, token, repos, viewerReq, viewer>>

\* The callback of prs.map for one pull request: { ...pr, reviews } when the
\* review request answers 2xx, pr as the list gave it otherwise.
WithReviews(pr, resp) ==
    IF resp.kind = "ok" THEN [pr EXCEPT !.reviews = Arr(resp.body)] ELSE pr

\* Mutant: the pull request's author is passed where the viewer belongs.
ProcessBranch_AuthorAsViewer(prs, repo, user, now) ==
    [k \in 1..Len(prs) |-> processPR(prs[k], repo, prs[k].user.login, now)]

\* prsWithReviews.map((pr) => processPR(pr, repo, currentUser.login))
ProcessBranch(prs, repo, user, now) ==
    [k \in 1..Len(prs) |-> processPR(prs[k], repo, user.login, now)]

\* The clock moves on by an hour, or not at all, while a pass is under way.
ClockStep == MsPerHour

\* What new Date() can return, the clock having read clock before.
ClockReadings == {t \in {Now0, Now0 + ClockStep} : t >= clock}

\* The review request of the j-th pull request of repos[i] settles. With the
\* last one, the callback of repos.map processes its pull requests and resolves.
ReviewSettles(i, j) ==
    /\ i \in 1..Len(branch)
    /\ branch[i].st = "reviews"
    /\ j \in 1..Len(branch[i].prs)
    /\ j \notin branch[i].revDone
    /\ LET b == branch[i]
           prs == [b.prs EXCEPT ![j] = WithReviews(b.prs[j], b.revResp[j])]
           done == b.revDone \cup {j}
       IN IF done = 1..Len(prs)
          THEN \E now \in ClockReadings :
                /\ clock' = now
                /\ branch' = [branch EXCEPT
                     ![i].st = "resolved", ![i].revDone = done, ![i].prs = prs,
                     ![i].out = ProcessBranch(prs, repos[i], viewer, now)]
          ELSE /\ branch' = [branch EXCEPT ![i].revDone = done, ![i].prs = prs]
               /\ UNCHANGED clock
    /\ SettlePass(branch', i)
    /\ UNCHANGED <<besidePass, token, repos, viewerReq, viewer, reqCount>>

Next ==
    \/ Call
    \/ ViewerSettles
    \/ \E i \in 1..Len(branch) : ListSettles(i)
    \/ \E i \in 1..Len(branch) : \E j \in 1..MaxPRs : ReviewSettles(i, j)

Spec == Init /\ [][Next]_vars

\* Every request that was sent settles in the end: a step that can be taken
\* is taken.
FairSpec == Spec /\ WF_vars(Next)

-----------------------------------------------------------------------------
(* SpecClassify: processPR applied to one pull request *)

IdlePass ==
    /\ token = ""
    /\ repos = <<>>
    /\ phase = "Idle"
    /\ viewerReq = [st |-> "none", resp |-> NoResponse]
    /\ viewer = Undefined
    /\ branch = <<>>
    /\ reqCount = [user |-> 0, pulls |-> 0, reviews |-> 0]
    /\ returned = <<>>
    /\ thrown = NoError

InitClassify ==
    /\ cPR \in [id : {1}, number : {1}, draft : BOOLEAN, user : {[login |-> "hubot"]},
                created_at : {Iso(0)}, updated_at : UpdatedAts,
                reviews : ReviewLists]
    /\ cUser \in Logins
    /\ clock = Now0
    /\ cOut = NoOutput
    /\ cPc = "input"
    /\ IdlePass
    /\ IdleFormat
    /\ IdleStorage
    /\ IdleDashboard
    /\ IdleSettings
    /\ IdleTable

\* processPR(pr, repo, currentUser), new Date() returning now.
Classify ==
    /\ cPc = "input"
    /\ \E now \in Nows :
        /\ clock' = now
        /\ cOut' = processPR(cPR, RepoAlpha, cUser, now)
    /\ cPc' = "done"
    /\ UNCHANGED <<cPR, cUser, besideClassify>>

NextClassify == Classify

SpecClassify == InitClassify /\ [][NextClassify]_vars

-----------------------------------------------------------------------------
(* SpecFormat: formatRelativeTime applied to one timestamp *)

SecondsPerDay == 24 * 60 * 60

\* Elapsed whole seconds around every threshold of the function, a timestamp
\* in the future included.
ElapsedSeconds ==
    {-1, 0, 1, 59, 60, 61, 119, 120, 3599, 3600, 3601, 7199, 7200,
     SecondsPerDay - 1, SecondsPerDay, 2 * SecondsPerDay - 1, 2 * SecondsPerDay,
     7 * SecondsPerDay - 1, 7 * SecondsPerDay, 14 * SecondsPerDay - 1,
     14 * SecondsPerDay, 21 * SecondsPerDay, 28 * SecondsPerDay - 1,
     28 * SecondsPerDay, 29 * SecondsPerDay, 30 * SecondsPerDay - 1,
     30 * SecondsPerDay, 59 * SecondsPerDay, 60 * SecondsPerDay - 1,
     60 * SecondsPerDay, 365 * SecondsPerDay}

ElapsedMillis == {0, 1, 999}

\* The clock of a call of formatRelativeTime; timestamps up to this far back
\* are instants of the model.
FormatNow == 20 * MsPerDay

InitFormat ==
    /\ fSecs \in ElapsedSeconds
    /\ fMs \in ElapsedMillis
    /\ fOut = NoOutput
    /\ fPc = "input"
    /\ clock = FormatNow
    /\ IdleClassify
    /\ IdlePass
    /\ IdleStorage
    /\ IdleDashboard
    /\ IdleSettings
    /\ IdleTable

\* formatRelativeTime(dateString) for the timestamp fSecs seconds and fMs
\* milliseconds before the clock. A timestamp further back than the model's
\* instants reach enters by its whole elapsed seconds, which is all the
\* function reads of it.
Format ==
    /\ fPc = "input"
    /\ fOut' = IF fSecs < FormatNow \div MsPerSecond
               THEN formatRelativeTime(Iso(FormatNow - (fSecs * MsPerSecond + fMs)),
                                       FormatNow)
               ELSE FormatSeconds(fSecs)
    /\ fPc' = "done"
    /\ UNCHANGED <<fSecs, fMs, besideFormat>>

NextFormat == Format

SpecFormat == InitFormat /\ [][NextFormat]_vars

-----------------------------------------------------------------------------
(* The crypto module and the token storage *)

\* if (s) on a string or null: null and the empty string are falsy.
TruthyString(s) == s # Null /\ s # Str("")

\* What decrypting something else than the token gives when nothing checks it.
Garbled == "garbled"

\* encryptToken: AES-GCM under a key derived from the passphrase, with a
\* fresh salt and IV. The ciphertext opens to the token under passphrase only.
encryptToken(tok, passphrase) == <<"aes", tok, passphrase>>

\* simpleXorEncrypt: btoa of the characters XORed with the key's. The empty
\* text gives the empty string.
simpleXorEncrypt(text, key) ==
    IF text = "" THEN Str("") ELSE <<"xor", text, key>>

\* Mutant: the Web Crypto API is used whether it is supported or not.
encryptTokenFallback_AlwaysWebCrypto(tok, passphrase, supported) ==
    encryptToken(tok, passphrase)

\* encryptTokenFallback, isCryptoSupported() returning supported.
encryptTokenFallback(tok, passphrase, supported) ==
    IF supported THEN encryptToken(tok, passphrase)
    ELSE simpleXorEncrypt(tok, passphrase)

Decrypted(value) == [threw |-> FALSE, value |-> value]
DecryptThrows == [threw |-> TRUE, value |-> ""]

\* decryptToken: throws "Failed to decrypt token" unless the data is an
\* AES-GCM ciphertext made under the same passphrase (the authentication tag
\* does not verify otherwise).
decryptToken(encryptedData, passphrase) ==
    IF encryptedData[1] = "aes" /\ encryptedData[3] = passphrase
    THEN Decrypted(encryptedData[2])
    ELSE DecryptThrows

\* simpleXorDecrypt: atob and XOR with the key; any base64 string decrypts to
\* something, the token only when it was XORed with the same key.
simpleXorDecrypt(encryptedData, key) ==
    IF encryptedData = Str("") THEN Decrypted("")
    ELSE IF encryptedData[1] = "xor" /\ encryptedData[3] = key
    THEN Decrypted(encryptedData[2])
    ELSE Decrypted(Garbled)

\* decryptTokenFallback, isCryptoSupported() returning supported.
decryptTokenFallback(encryptedData, passphrase, supported) ==
    IF supported THEN decryptToken(encryptedData, passphrase)
    ELSE simpleXorDecrypt(encryptedData, passphrase)

\* The outcome of a call: localStorage afterwards and the value returned.
Outcome(st, ret) == [storage |-> st, ret |-> ret]

\* storeTokenSecurely(token) on localStorage st, in a browser whose
\* generateSecurePassphrase() is fp and isCryptoSupported() is supported.
storeTokenSecurely(st, tok, fp, supported) ==
    Outcome([st EXCEPT !.enc = encryptTokenFallback(tok, fp, supported),
                       !.pass = Str(fp)],
            Undefined)

clearStoredToken(st) == [st EXCEPT !.enc = Null, !.pass = Null]

hasStoredToken(st) == st.enc # Null

\* Mutant: when both decryptions fail the keys are left in place.
getStoredToken_KeepsUndecryptable(st, fp, supported) ==
    IF ~TruthyString(st.enc) \/ ~TruthyString(st.pass) THEN Outcome(st, Null)
    ELSE LET first == decryptTokenFallback(st.enc, st.pass[2], supported)
             retry == decryptTokenFallback(st.enc, fp, supported)
         IN IF ~first.threw THEN Outcome(st, Str(first.value))
            ELSE IF ~retry.threw
            THEN Outcome([st EXCEPT !.pass = Str(fp)], Str(retry.value))
            ELSE Outcome(st, Null)

\* getStoredToken(): null when a key is missing; the token decrypted with the
\* stored passphrase; failing that, with the regenerated passphrase, which
\* then replaces the stored one; failing that too, both keys are removed.
getStoredToken(st, fp, supported) ==
    IF ~TruthyString(st.enc) \/ ~TruthyString(st.pass) THEN Outcome(st, Null)
    ELSE LET first == decryptTokenFallback(st.enc, st.pass[2], supported)
             retry == decryptTokenFallback(st.enc, fp, supported)
         IN IF ~first.threw THEN Outcome(st, Str(first.value))
            ELSE IF ~retry.threw
            THEN Outcome([st EXCEPT !.pass = Str(fp)], Str(retry.value))
            ELSE Outcome(clearStoredToken(st), Null)

\* migratePlainTextToken(): a token under "github_token" is stored encrypted
\* and removed, unless an encrypted token is stored already.
migratePlainTextToken(st, fp, supported) ==
    IF TruthyString(st.plain) /\ ~hasStoredToken(st)
    THEN Outcome([storeTokenSecurely(st, st.plain[2], fp, supported).storage
                     EXCEPT !.plain = Null],
                 Undefined)
    ELSE Outcome(st, Undefined)

\* migrateEncryptedToken(): what decrypts with the stored passphrase is
\* encrypted again with the regenerated one; a failure is logged only.
migrateEncryptedToken(st, fp, supported) ==
    IF ~TruthyString(st.enc) \/ ~TruthyString(st.pass) THEN Outcome(st, Undefined)
    ELSE LET old == decryptTokenFallback(st.enc, st.pass[2], supported)
         IN IF old.threw THEN Outcome(st, Undefined)
            ELSE Outcome([st EXCEPT
                            !.enc = encryptTokenFallback(old.value, fp, supported),
                            !.pass = Str(fp)],
                         Undefined)

-----------------------------------------------------------------------------
(* SpecStorage: calls of the token storage, one after the other *)

\* The tokens given to storeTokenSecurely; the legacy token of an earlier
\* version of the dashboard.
StoredTokens == {"", "ghp_token", "ghp_other"}
LegacyToken == "ghp_legacy"

\* The passphrases of two browser fingerprints.
Fingerprints == {"fingerprintA", "fingerprintB"}

\* A browser that never ran the dashboard, or ran the version that kept the
\* token under "github_token".
InitStorage ==
    /\ storage \in {[plain |-> Null, enc |-> Null, pass |-> Null],
                    [plain |-> Str(LegacyToken), enc |-> Null, pass |-> Null]}
    /\ fingerprint \in Fingerprints
    /\ secure \in BOOLEAN
    /\ sLast = NoCall
    /\ clock = Now0
    /\ IdleClassify
    /\ IdleFormat
    /\ IdlePass
    /\ IdleDashboard
    /\ IdleSettings
    /\ IdleTable

\* A call completes with outcome out.
Completes(op, arg, out) ==
    /\ storage' = out.storage
    /\ sLast' = [op |-> op, arg |-> arg, ret |-> out.ret,
                 migrated |-> sLast.migrated \/ op = "migratePlainTextToken",
                 before |-> storage]
    /\ UNCHANGED <<fingerprint, secure, besideStorage>>

StoreCall ==
    \E t \in StoredTokens :
        Completes("storeTokenSecurely", Str(t),
                  storeTokenSecurely(storage, t, fingerprint, secure))

GetCall ==
    Completes("getStoredToken", Null, getStoredToken(storage, fingerprint, secure))

ClearCall ==
    Completes("clearStoredToken", Null, Outcome(clearStoredToken(storage), Undefined))

MigratePlainCall ==
    Completes("migratePlainTextToken", Null,
              migratePlainTextToken(storage, fingerprint, secure))

MigrateEncryptedCall ==
    Completes("migrateEncryptedToken", Null,
              migrateEncryptedToken(storage, fingerprint, secure))

\* Between two calls the browser changes: another user agent, language or
\* screen (the fingerprint), or the page is served over http instead of
\* https or the reverse (the crypto support).
BrowserChanges ==
    /\ \E fp \in Fingerprints, sup \in BOOLEAN :
          /\ <<fp, sup>> # <<fingerprint, secure>>
          /\ fingerprint' = fp
          /\ secure' = sup
    /\ sLast' = [sLast EXCEPT !.op = "browser", !.arg = Null, !.ret = Undefined,
                              !.before = storage]
    /\ UNCHANGED <<storage, besideStorage>>

NextStorage ==
    \/ StoreCall
    \/ GetCall
    \/ ClearCall
    \/ MigratePlainCall
    \/ MigrateEncryptedCall
    \/ BrowserChanges

SpecStorage == InitStorage /\ [][NextStorage]_vars

-----------------------------------------------------------------------------
(* SpecGetStoredToken: getStoredToken on any content of the two keys *)

\* What the two keys may hold when getStoredToken is called: nothing, the
\* empty string, a ciphertext of either cipher under either passphrase, and
\* either passphrase, whoever wrote them.
AnyEncrypted ==
    {Null, Str("")}
        \cup {encryptToken("ghp_token", p) : p \in Fingerprints}
        \cup {simpleXorEncrypt("ghp_token", p) : p \in Fingerprints}
AnyPassphrase == {Null, Str("")} \cup {Str(p) : p \in Fingerprints}

InitGetStoredToken ==
    /\ storage \in [plain : {Null}, enc : AnyEncrypted, pass : AnyPassphrase]
    /\ fingerprint \in Fingerprints
    /\ secure \in BOOLEAN
    /\ sLast = NoCall
    /\ clock = Now0
    /\ IdleClassify
    /\ IdleFormat
    /\ IdlePass
    /\ IdleDashboard
    /\ IdleSettings
    /\ IdleTable

NextGetStoredToken == GetCall

SpecGetStoredToken == InitGetStoredToken /\ [][NextGetStoredToken]_vars

-----------------------------------------------------------------------------
(* SpecDashboard: the PRDashboard component *)

\* How many fetches one life starts, and how many user events and timer
\* ticks it handles.
MaxFetches == 2
MaxHandled == 2

\* The default watched repositories; what the settings dialog adds.
DefaultRepos == <<"vercel/next.js", "vercel/turbo", "vercel/commerce">>
WatchableRepos == {"vercel/next.js", "vercel/turbo"}

\* localStorage "watchedRepos" at mount: absent, or a saved list.
SavedRepos == {Null, <<>>, <<"vercel/next.js">>}

\* The tokens the user submits.
UserTokens == {"ghp_other"}

ViewerLogin == Str("octocat")

\* What getCurrentUser and fetchPullRequests reject with.
Failures == {GitHubAPIError(Str("Bad credentials"), 401, Undefined),
             GitHubAPIError(Str("API rate limit exceeded"), 403, Str("0")),
             GitHubAPIError(Str("Not Found"), 404, Undefined)}

\* Mutant: nothing is shown for a status other than 401 and 403.
FetchErrorText_SilentOnOtherStatus(err) ==
    IF err.name = "GitHubAPIError" /\ err.status = 401
    THEN Str("Invalid GitHub token. Please check your token in settings.")
    ELSE IF err.name = "GitHubAPIError" /\ err.status = 403
    THEN Str("Rate limit exceeded. Please try again later.")
    ELSE Null

\* The catch of fetchPRs: the message shown for an error.
FetchErrorText(err) ==
    IF err.name = "GitHubAPIError"
    THEN IF err.status = 401
         THEN Str("Invalid GitHub token. Please check your token in settings.")
         ELSE IF err.status = 403
         THEN Str("Rate limit exceeded. Please try again later.")
         ELSE <<"GitHub API error: ", err.message>>
    ELSE Str("Failed to fetch pull requests. Please try again.")

\* The list fetchPullRequests resolves to for the fetch started n-th: the
\* open pull requests of the repositories it was called with, as the
\* provider had them then.
FetchResult(n, rps) == [i \in 1..Len(rps) |-> [repo |-> rps[i], fetch |-> n]]

\* filteredPRs with the filters the dashboard starts with (empty search, tab
\* "all", repository "all") on records without excluded labels: what is left
\* is the test against the watched list.
filteredPRs(list, watched) ==
    SelectSeq(list, LAMBDA pr :
        Len(watched) = 0 \/ \E i \in 1..Len(watched) : watched[i] = pr.repo)

\* The guard of fetchPRs and of the two effects that depend on it.
Starts(tok, rps) == TruthyString(tok) /\ rps # <<>>

\* Mutant: the interval is armed without looking at the token and the list.
AutoRefreshEffect_NoGuard(tok, rps) ==
    [armed |-> TRUE, token |-> tok, repos |-> rps]

\* The auto-refresh effect: its cleanup has cleared the interval before; a
\* new one is set, calling the fetchPRs of this render, unless the token is
\* unset or the list is empty.
AutoRefreshEffect(tok, rps) ==
    IF ~Starts(tok, rps) THEN NoInterval
    ELSE [armed |-> TRUE, token |-> tok, repos |-> rps]

\* fetchPRs of the render with token tok and list rps: nothing when the guard
\* fails; else loading is set, the error cleared, and getCurrentUser awaited.
fetchPRs(tok, rps, errBefore) ==
    IF Starts(tok, rps)
    THEN /\ Len(fetches) < MaxFetches
         /\ fetches' = Append(fetches, [token |-> tok, repos |-> rps, stage |-> "user"])
         /\ isLoading' = TRUE
         /\ errorText' = Null
    ELSE /\ fetches' = fetches
         /\ isLoading' = isLoading
         /\ errorText' = errBefore

\* The render after setGithubToken(tok) and setWatchedRepos(rps), and the
\* effects whose dependencies changed: the save-token effect on a new token,
\* the fetch effect and the auto-refresh effect on a new token or a new list.
Commit(tok, rps, newList, errBefore, st) ==
    LET newToken == tok # githubToken
    IN /\ githubToken' = tok
       /\ watchedRepos' = rps
       /\ storage' = IF newToken /\ ~TruthyString(tok) THEN clearStoredToken(st) ELSE st
       /\ saving' = IF newToken /\ TruthyString(tok) THEN saving \cup {tok[2]} ELSE saving
       /\ IF newToken \/ newList
          THEN /\ fetchPRs(tok, rps, errBefore)
               /\ interval' = AutoRefreshEffect(tok, rps)
          ELSE /\ fetches' = fetches
               /\ isLoading' = isLoading
               /\ errorText' = errBefore
               /\ interval' = interval

\* A browser that never ran the dashboard, one that ran the version keeping
\* the token under "github_token", and one where a token was saved.
InitDashboard ==
    /\ fingerprint = "fingerprintA"
    /\ secure \in BOOLEAN
    /\ \E plain \in {Null, Str(LegacyToken)}, saved \in BOOLEAN :
          LET st == [plain |-> plain, enc |-> Null, pass |-> Null]
          IN storage = IF saved
                       THEN storeTokenSecurely(st, "ghp_token", fingerprint, secure).storage
                       ELSE st
    /\ sLast = NoCall
    /\ IdleDashboard
    /\ IdleSettings
    /\ IdleTable
    /\ clock = Now0
    /\ IdleClassify
    /\ IdleFormat
    /\ IdlePass

\* The component mounts: the first render, then its effects in order. The
\* load effect calls loadData, which sets the watched list and runs
\* migratePlainTextToken up to its first await; the save-token effect, the
\* token being null, calls clearStoredToken; the fetch effect and the
\* auto-refresh effect do nothing without a token, neither at this render
\* nor at the one the new list brings.
Mount ==
    /\ loadData.pc = "unmounted"
    /\ \E savedRepos \in SavedRepos :
          watchedRepos' = IF savedRepos = Null THEN DefaultRepos ELSE savedRepos
    /\ loadData' = [pc |-> "migrating",
                    pending |-> IF TruthyString(storage.plain) /\ ~hasStoredToken(storage)
                                THEN storage.plain ELSE Null,
                    got |-> Null]
    /\ storage' = clearStoredToken(storage)
    /\ storedAtMount' = getStoredToken(storage, fingerprint, secure).ret
    /\ interval' = AutoRefreshEffect(githubToken, watchedRepos')
    /\ event' = "mount"
    /\ UNCHANGED <<githubToken, prsShown, isLoading, errorText, lastRefresh, currentLogin,
                   saving, fetches, handled, besideDashboard>>

\* migratePlainTextToken settles: the legacy token it found is stored
\* encrypted and "github_token" removed. loadData goes on to getStoredToken,
\* which reads localStorage and decrypts.
MigrationSettles ==
    /\ loadData.pc = "migrating"
    /\ LET migrated ==
              IF loadData.pending = Null THEN storage
              ELSE [storeTokenSecurely(storage, loadData.pending[2],
                                       fingerprint, secure).storage
                       EXCEPT !.plain = Null]
           out == getStoredToken(migrated, fingerprint, secure)
       IN /\ storage' = out.storage
          /\ loadData' = [pc |-> "reading", pending |-> Null, got |-> out.ret]
    /\ event' = "continuation"
    /\ UNCHANGED <<githubToken, watchedRepos, prsShown, isLoading, errorText, lastRefresh,
                   currentLogin, saving, fetches, interval, storedAtMount, handled,
                   besideDashboard>>

\* getStoredToken settles: a token it gave is set, and the render follows.
LoadSettles ==
    /\ loadData.pc = "reading"
    /\ Commit(IF TruthyString(loadData.got) THEN loadData.got ELSE githubToken,
              watchedRepos, FALSE, errorText, storage)
    /\ loadData' = [pc |-> "loaded", pending |-> Null, got |-> Null]
    /\ event' = "continuation"
    /\ UNCHANGED <<prsShown, lastRefresh, currentLogin, storedAtMount, handled,
                   besideDashboard>>

\* storeTokenSecurely of the save-token effect settles: both keys are written.
SaveSettles ==
    /\ \E t \in saving :
          /\ storage' = storeTokenSecurely(storage, t, fingerprint, secure).storage
          /\ saving' = saving \ {t}
    /\ event' = "continuation"
    /\ UNCHANGED <<githubToken, watchedRepos, prsShown, isLoading, errorText, lastRefresh,
                   currentLogin, loadData, fetches, interval, storedAtMount, handled,
                   besideDashboard>>

\* handleUpdateToken: from the token setup shown while no token is set, or
\* from the settings dialog, which also clears the token.
HandleUpdateToken ==
    /\ loadData.pc # "unmounted"
    /\ handled < MaxHandled
    /\ \E tok \in {Null} \cup {Str(t) : t \in UserTokens} :
          /\ tok # Null \/ TruthyString(githubToken)
          /\ Commit(tok, watchedRepos, FALSE, Null, storage)
    /\ event' = "handler"
    /\ handled' = handled + 1
    /\ UNCHANGED <<prsShown, lastRefresh, currentLogin, loadData, storedAtMount,
                   besideDashboard>>

\* handleUpdateRepos, called by the settings dialog with the list plus one
\* repository or minus one.
HandleUpdateRepos ==
    /\ loadData.pc # "unmounted"
    /\ handled < MaxHandled
    /\ TruthyString(githubToken)
    /\ \E rps \in {Append(watchedRepos, r) :
                      r \in {w \in WatchableRepos :
                                \A i \in 1..Len(watchedRepos) : watchedRepos[i] # w}}
                  \cup {SelectSeq(watchedRepos, LAMBDA r : r # watchedRepos[i]) :
                           i \in 1..Len(watchedRepos)} :
          Commit(githubToken, rps, TRUE, errorText, storage)
    /\ event' = "handler"
    /\ handled' = handled + 1
    /\ UNCHANGED <<prsShown, lastRefresh, currentLogin, loadData, storedAtMount,
                   besideDashboard>>

\* handleRefresh: the refresh button of the dashboard shown with a token.
HandleRefresh ==
    /\ loadData.pc # "unmounted"
    /\ handled < MaxHandled
    /\ TruthyString(githubToken)
    /\ fetchPRs(githubToken, watchedRepos, errorText)
    /\ event' = "handler"
    /\ handled' = handled + 1
    /\ UNCHANGED <<githubToken, watchedRepos, prsShown, lastRefresh, currentLogin, loadData,
                   saving, interval, storage, storedAtMount, besideDashboard>>

\* Five minutes after the interval was set, or after its last tick, its
\* callback calls the fetchPRs of the render that set it.
TimerTick ==
    /\ interval.armed
    /\ handled < MaxHandled
    /\ fetchPRs(interval.token, interval.repos, errorText)
    /\ event' = "tick"
    /\ handled' = handled + 1
    /\ UNCHANGED <<githubToken, watchedRepos, prsShown, lastRefresh, currentLogin, loadData,
                   saving, interval, storage, storedAtMount, besideDashboard>>

Settled(n, stage) == [fetches EXCEPT ![n].stage = stage]

\* The catch and the finally of fetchPRs.
FetchFails(n, err) ==
    /\ fetches' = Settled(n, "failed")
    /\ errorText' = FetchErrorText(err)
    /\ isLoading' = FALSE
    /\ UNCHANGED <<prsShown, lastRefresh, currentLogin>>

\* await getCurrentUser settles for the fetch started n-th.
UserSettles ==
    /\ \E n \in 1..Len(fetches) :
          /\ fetches[n].stage = "user"
          /\ \/ /\ fetches' = Settled(n, "pulls")
                /\ currentLogin' = ViewerLogin
                /\ UNCHANGED <<prsShown, lastRefresh, isLoading, errorText>>
             \/ \E err \in Failures : FetchFails(n, err)
    /\ event' = "continuation"
    /\ UNCHANGED <<githubToken, watchedRepos, loadData, saving, interval, storage,
                   storedAtMount, handled, besideDashboard>>

\* await fetchPullRequests settles for the fetch started n-th.
PullsSettle ==
    /\ \E n \in 1..Len(fetches) :
          /\ fetches[n].stage = "pulls"
          /\ \/ /\ fetches' = Settled(n, "done")
                /\ prsShown' = FetchResult(n, fetches[n].repos)
                /\ lastRefresh' = lastRefresh + 1
                /\ isLoading' = FALSE
                /\ UNCHANGED <<currentLogin, errorText>>
             \/ \E err \in Failures : FetchFails(n, err)
    /\ event' = "continuation"
    /\ UNCHANGED <<githubToken, watchedRepos, loadData, saving, interval, storage,
                   storedAtMount, handled, besideDashboard>>

NextDashboard ==
    \/ Mount
    \/ MigrationSettles
    \/ LoadSettles
    \/ SaveSettles
    \/ HandleUpdateToken
    \/ HandleUpdateRepos
    \/ HandleRefresh
    \/ TimerTick
    \/ UserSettles
    \/ PullsSettle

SpecDashboard == InitDashboard /\ [][NextDashboard]_vars

-----------------------------------------------------------------------------
(* SpecSettings: the repository list of the settings dialog *)

\* The texts the input takes, by their characters.
Text ==
    ("" :> <<>>) @@
    ("react" :> <<"r", "e", "a", "c", "t">>) @@
    ("vercel/next.js" :> <<"v", "e", "r", "c", "e", "l", "/", "n", "e", "x", "t", ".", "j", "s">>) @@
    ("facebook/react" :> <<"f", "a", "c", "e", "b", "o", "o", "k", "/", "r", "e", "a", "c", "t">>) @@
    ("microsoft/vscode" :> <<"m", "i", "c", "r", "o", "s", "o", "f", "t", "/", "v", "s", "c", "o", "d", "e">>) @@
    (" facebook/react " :> <<" ", "f", "a", "c", "e", "b", "o", "o", "k", "/", "r", "e", "a", "c", "t", " ">>) @@
    ("octo-org/my_repo" :> <<"o", "c", "t", "o", "-", "o", "r", "g", "/", "m", "y", "_", "r", "e", "p", "o">>) @@
    ("facebook/react/issues" :> <<"f", "a", "c", "e", "b", "o", "o", "k", "/", "r", "e", "a", "c", "t", "/", "i", "s", "s", "u", "e", "s">>) @@
    ("/react" :> <<"/", "r", "e", "a", "c", "t">>)

\* \w of a regular expression without flags, and the class [\w-].
WordChars ==
    {"a", "b", "c", "d", "e", "f", "g", "h", "i", "j", "k", "l", "m", "n", "o",
     "p", "q", "r", "s", "t", "u", "v", "w", "x", "y", "z",
     "A", "B", "C", "D", "E", "F", "G", "H", "I", "J", "K", "L", "M", "N", "O",
     "P", "Q", "R", "S", "T", "U", "V", "W", "X", "Y", "Z",
     "0", "1", "2", "3", "4", "5", "6", "7", "8", "9", "_"}
RepoChars == WordChars \cup {"-"}

Whitespace == {" ", "\t", "\n"}

\* String.prototype.trim on the characters.
TrimChars(cs) ==
    LET inked == {i \in 1..Len(cs) : cs[i] \notin Whitespace}
    IN IF inked = {} THEN <<>>
       ELSE LET first == CHOOSE i \in inked : \A j \in inked : i <= j
                last == CHOOSE i \in inked : \A j \in inked : j <= i
            IN [k \in 1..(last - first + 1) |-> cs[first + k - 1]]

\* The text with these characters.
TextOf(cs) == CHOOSE t \in DOMAIN Text : Text[t] = cs

Trim(t) == TextOf(TrimChars(Text[t]))

\* /^[\w-]+\/[\w-]+$/.test(t): one slash, with one or more characters of
\* [\w-] before it and after it, and nothing else.
RepoPatternTest(t) ==
    LET cs == Text[t]
    IN \E k \in 2..(Len(cs) - 1) :
          /\ cs[k] = "/"
          /\ \A i \in (1..Len(cs)) \ {k} : cs[i] \in RepoChars

Includes(list, x) == \E i \in 1..Len(list) : list[i] = x

\* Mutant: a repository already watched is added again.
handleAddRepo_NoDuplicateCheck(list, typed) ==
    IF ~RepoPatternTest(Trim(typed))
    THEN [repos |-> list, newRepo |-> typed,
          error |-> "Please use format: owner/repository (e.g., vercel/next.js)"]
    ELSE [repos |-> Append(list, Trim(typed)), newRepo |-> "", error |-> ""]

\* handleAddRepo with the list list and the input text typed: the list given
\* to onUpdateRepos (the list itself when it is not called), the input text
\* and the message afterwards.
handleAddRepo(list, typed) ==
    IF ~RepoPatternTest(Trim(typed))
    THEN [repos |-> list, newRepo |-> typed,
          error |-> "Please use format: owner/repository (e.g., vercel/next.js)"]
    ELSE IF Includes(list, Trim(typed))
    THEN [repos |-> list, newRepo |-> typed,
          error |-> "This repository is already being watched"]
    ELSE [repos |-> Append(list, Trim(typed)), newRepo |-> "", error |-> ""]

\* handleRemoveRepo(repo): the list given to onUpdateRepos.
handleRemoveRepo(list, repo) == SelectSeq(list, LAMBDA r : r # repo)

\* What the search of the dialog suggests (full names of repositories).
Suggestions == {"vercel/next.js", "facebook/react"}

\* The dialog opens on a watched list without duplicates: the default one,
\* an empty one, or one saved earlier.
InitSettings ==
    /\ watchedRepos \in {<<>>, DefaultRepos, <<"facebook/react">>}
    /\ IdleSettings
    /\ githubToken = Str("ghp_token")
    /\ prsShown = <<>>
    /\ isLoading = FALSE
    /\ errorText = Null
    /\ lastRefresh = 0
    /\ currentLogin = Null
    /\ loadData = [pc |-> "unmounted", pending |-> Null, got |-> Null]
    /\ saving = {}
    /\ fetches = <<>>
    /\ interval = NoInterval
    /\ event = "none"
    /\ storedAtMount = Null
    /\ handled = 0
    /\ clock = Now0
    /\ IdleClassify
    /\ IdleFormat
    /\ IdlePass
    /\ IdleStorage
    /\ IdleTable

\* handleInputChange: the user types.
HandleInputChange ==
    /\ \E typed \in DOMAIN Text :
          /\ newRepo' = typed
          /\ settingsEvent' = [op |-> "type", arg |-> typed]
    /\ settingsError' = ""
    /\ UNCHANGED <<watchedRepos, besideSettings>>

\* handleSelectSuggestion: a suggestion is put into the input.
HandleSelectSuggestion ==
    /\ \E repo \in Suggestions :
          /\ newRepo' = repo
          /\ settingsEvent' = [op |-> "suggest", arg |-> repo]
    /\ settingsError' = ""
    /\ UNCHANGED <<watchedRepos, besideSettings>>

\* The Add button or the Enter key; onUpdateRepos is the dashboard's
\* handleUpdateRepos, which sets the watched list.
HandleAddRepo ==
    /\ LET out == handleAddRepo(watchedRepos, newRepo)
       IN /\ watchedRepos' = out.repos
          /\ newRepo' = out.newRepo
          /\ settingsError' = out.error
    /\ settingsEvent' = [op |-> "add", arg |-> newRepo]
    /\ UNCHANGED besideSettings

\* The remove button of an entry of the list.
HandleRemoveRepo ==
    /\ \E i \in 1..Len(watchedRepos) :
          /\ watchedRepos' = handleRemoveRepo(watchedRepos, watchedRepos[i])
          /\ settingsEvent' = [op |-> "remove", arg |-> watchedRepos[i]]
    /\ UNCHANGED <<newRepo, settingsError, besideSettings>>

NextSettings ==
    \/ HandleInputChange
    \/ HandleSelectSuggestion
    \/ HandleAddRepo
    \/ HandleRemoveRepo

SpecSettings == InitSettings /\ [][NextSettings]_vars

-----------------------------------------------------------------------------
(* SpecTable: the pagination of PRDataTable *)

\* pageSize as the dashboard passes it (and its default).
PageSize == 10

\* The longest list the table is given.
MaxTablePrs == 35

Max(a, b) == IF a >= b THEN a ELSE b
Min(a, b) == IF a <= b THEN a ELSE b

\* Math.ceil(prs.length / pageSize).
totalPages(list) == (Len(list) + PageSize - 1) \div PageSize

\* Array.prototype.slice(start, end) for start, end >= 0.
Slice(list, start, end) ==
    LET to == Min(end, Len(list))
    IN IF start >= to THEN <<>> ELSE [k \in 1..(to - start) |-> list[start + k]]

\* currentPRs: the rows of the page shown.
currentPRs(list, page) ==
    Slice(list, (page - 1) * PageSize, (page - 1) * PageSize + PageSize)

\* handlePageChange(page): the page set.
handlePageChange(page, list) == Max(1, Min(page, totalPages(list)))

\* The table mounts on page 1 with the list of its parent.
InitTable ==
    /\ \E n \in 0..MaxTablePrs : tablePrs = [k \in 1..n |-> k]
    /\ currentPage = 1
    /\ clock = Now0
    /\ IdleClassify
    /\ IdleFormat
    /\ IdlePass
    /\ IdleStorage
    /\ IdleDashboard
    /\ IdleSettings

\* A click on Previous, Next or a page number. The buttons exist when there
\* is more than one page; Previous is disabled on page 1 and Next on the
\* last page.
PageClick ==
    /\ totalPages(tablePrs) > 1
    /\ \E page \in ({currentPage - 1} \ {0})
                    \cup (IF currentPage = totalPages(tablePrs) THEN {}
                          ELSE {currentPage + 1})
                    \cup 1..totalPages(tablePrs) :
          currentPage' = handlePageChange(page, tablePrs)
    /\ UNCHANGED <<tablePrs, besideTable>>

\* The parent renders with another list (a filter, a refresh).
PrsChange ==
    /\ \E n \in 0..MaxTablePrs : tablePrs' = [k \in 1..n |-> k]
    /\ UNCHANGED <<currentPage, besideTable>>

NextTable ==
    \/ PageClick
    \/ PrsChange

SpecTable == InitTable /\ [][NextTable]_vars

-----------------------------------------------------------------------------
(* Properties of processPR (SpecClassify) *)

\* The reviews of the pull request given to processPR.
cReviews == IF cPR.reviews = Undefined THEN <<>> ELSE cPR.reviews[2]

\* The viewer's reviews that are not dismissed and carry a submission time.
cQualifying ==
    {i \in 1..Len(cReviews) :
        /\ cReviews[i].state # "DISMISSED"
        /\ cReviews[i].submitted_at # Null
        /\ cReviews[i].user.login = cUser}

\* The latest submission time among them.
cLatest ==
    CHOOSE t \in {cReviews[i].submitted_at[2] : i \in cQualifying} :
        \A i \in cQualifying : cReviews[i].submitted_at[2] <= t

\* Milliseconds from the pull request's update to the clock reading of the call.
cElapsed == clock - cPR.updated_at[2]

FiveDays == 5 * 24 * 60 * 60 * 1000

\* C1: a pull request updated 5 days or more before now is "stagnant", whatever
\* its reviews are.
C1_StagnantWhateverReviews ==
    (cPc = "done" /\ cElapsed >= FiveDays) => cOut.status = "stagnant"

\* C1 witness: a stagnant pull request whose viewer's latest review is an
\* approval newer than the update.
C1_Witness ==
    /\ cPc = "done"
    /\ cElapsed >= FiveDays
    /\ cQualifying # {}
    /\ cLatest > cPR.updated_at[2]
    /\ \A i \in cQualifying :
          cReviews[i].submitted_at[2] = cLatest => cReviews[i].state = "APPROVED"
    /\ cOut.status = "stagnant"

\* C10: a pull request updated less than 5 days ago whose viewer's latest
\* non-dismissed review was submitted strictly before the update is
\* "re-review", whatever the review's state; submitted at the very instant of
\* the update, it is not.
C10_ReReviewIffUpdatedAfterReview ==
    (cPc = "done" /\ cElapsed < FiveDays /\ cQualifying # {}) =>
        /\ cLatest < cPR.updated_at[2] => cOut.status = "re-review"
        /\ cLatest = cPR.updated_at[2] => cOut.status # "re-review"

\* C10 witness: an approval older than the update gives "re-review".
C10_Witness ==
    /\ cPc = "done"
    /\ cElapsed < FiveDays
    /\ cQualifying # {}
    /\ cLatest < cPR.updated_at[2]
    /\ \A i \in cQualifying :
          cReviews[i].submitted_at[2] = cLatest => cReviews[i].state = "APPROVED"
    /\ cOut.status = "re-review"

\* The viewer's latest qualifying review: the greatest submission time, the
\* first in the order of the input among equals.
cLatestReview ==
    cReviews[CHOOSE i \in cQualifying :
                /\ cReviews[i].submitted_at[2] = cLatest
                /\ \A k \in cQualifying :
                      k < i => cReviews[k].submitted_at[2] < cLatest]

\* C11 as stated: an approval as the viewer's latest non-dismissed review, and
\* no update after it, give "reviewed" for every pull request.
C11_ApprovedGivesReviewed ==
    (/\ cPc = "done"
     /\ cQualifying # {}
     /\ cLatestReview.state = "APPROVED"
     /\ cPR.updated_at[2] <= cLatest) => cOut.status = "reviewed"

\* C11: a pull request updated less than 5 days ago whose viewer's latest
\* non-dismissed review is an approval submitted at or after the update is
\* "reviewed".
C11_ApprovedGivesReviewedUnlessStagnant ==
    (/\ cPc = "done"
     /\ cElapsed < FiveDays
     /\ cQualifying # {}
     /\ cLatestReview.state = "APPROVED"
     /\ cPR.updated_at[2] <= cLatest) => cOut.status = "reviewed"

\* C11 witness: the approval is the later of two reviews of the viewer, the
\* earlier one older than the update.
C11_Witness ==
    /\ cPc = "done"
    /\ cElapsed < FiveDays
    /\ Cardinality(cQualifying) = 2
    /\ cLatestReview.state = "APPROVED"
    /\ cPR.updated_at[2] <= cLatest
    /\ \E i \in cQualifying : /\ cReviews[i].submitted_at[2] < cPR.updated_at[2]
                              /\ cReviews[i].state # "APPROVED"
    /\ cOut.status = "reviewed"

\* The viewer has no review on the pull request that is not dismissed.
cNeverReviewed ==
    \A i \in 1..Len(cReviews) :
        cReviews[i].user.login = cUser => cReviews[i].state = "DISMISSED"

\* C12 as stated: every pull request the viewer has no non-dismissed review on
\* is "pending".
C12_NoReviewGivesPending ==
    (cPc = "done" /\ cNeverReviewed) => cOut.status = "pending"

\* C12: a pull request updated less than 5 days ago that the viewer has no
\* non-dismissed review on (no reviews, reviews by others, dismissed reviews of
\* the viewer) is "pending".
C12_NoReviewGivesPendingUnlessStagnant ==
    (cPc = "done" /\ cElapsed < FiveDays /\ cNeverReviewed) =>
        cOut.status = "pending"

\* C12 witness: an approval by somebody else and a dismissed review of the
\* viewer, both submitted after the update.
C12_Witness ==
    /\ cPc = "done"
    /\ cElapsed < FiveDays
    /\ cNeverReviewed
    /\ \E i, k \in 1..Len(cReviews) :
          /\ cReviews[i].user.login # cUser
          /\ cReviews[i].state = "APPROVED"
          /\ cReviews[i].submitted_at # Null
          /\ cReviews[i].submitted_at[2] > cPR.updated_at[2]
          /\ cReviews[k].user.login = cUser
          /\ cReviews[k].state = "DISMISSED"
          /\ cReviews[k].submitted_at # Null
    /\ cOut.status = "pending"

\* C13: a pull request updated less than 5 days ago whose viewer's latest
\* non-dismissed review is COMMENTED or CHANGES_REQUESTED, submitted at or
\* after the update, is "pending".
C13_NotApprovedGivesPending ==
    (/\ cPc = "done"
     /\ cElapsed < FiveDays
     /\ cQualifying # {}
     /\ cLatestReview.state \in {"COMMENTED", "CHANGES_REQUESTED"}
     /\ cPR.updated_at[2] <= cLatest) => cOut.status = "pending"

\* C13 witness: changes requested after an earlier approval, nothing since.
C13_Witness ==
    /\ cPc = "done"
    /\ cElapsed < FiveDays
    /\ Cardinality(cQualifying) = 2
    /\ cLatestReview.state = "CHANGES_REQUESTED"
    /\ cPR.updated_at[2] <= cLatest
    /\ \E i \in cQualifying : /\ cReviews[i].submitted_at[2] < cLatest
                              /\ cReviews[i].state = "APPROVED"
    /\ cOut.status = "pending"

\* The pull request pr without its n-th review.
WithoutReview(pr, n) ==
    [pr EXCEPT !.reviews =
        Arr(SubSeq(pr.reviews[2], 1, n - 1)
            \o SubSeq(pr.reviews[2], n + 1, Len(pr.reviews[2])))]

\* C14: a pull request with a dismissed review, by anybody, submitted at any
\* time and anywhere in the list, gets the status and the
\* lastReviewedByCurrentUser that the same pull request without that review
\* gets at the same clock reading.
C14_DismissedReviewChangesNothing ==
    cPc = "done" =>
        \A n \in 1..Len(cReviews) :
            cReviews[n].state = "DISMISSED" =>
                LET other == processPR(WithoutReview(cPR, n), RepoAlpha, cUser, clock)
                IN /\ other.status = cOut.status
                   /\ other.lastReviewedByCurrentUser = cOut.lastReviewedByCurrentUser

\* C14 witness: the viewer approved at the instant of the update and has a
\* later review that was dismissed, which would be the latest if it counted.
C14_Witness ==
    /\ cPc = "done"
    /\ cOut.status = "reviewed"
    /\ cPR.updated_at = Iso(Now0 - 3 * MsPerHour)
    /\ cOut.lastReviewedByCurrentUser = Iso(Now0 - 3 * MsPerHour)
    /\ \E i \in 1..Len(cReviews) :
          cReviews[i] = [state |-> "DISMISSED", submitted_at |-> Iso(Now0 - MsPerHour),
                         user |-> [login |-> cUser]]

\* C24: whatever the status, lastReviewedByCurrentUser is the greatest
\* submission time among the viewer's reviews that are not dismissed and were
\* submitted, null exactly when there is none; and it is the time the status
\* was derived from: a pull request that is not stagnant is "re-review"
\* exactly when it was updated after that time.
C24_LastReviewIsLatestQualifying ==
    cPc = "done" =>
        /\ cQualifying = {} <=> cOut.lastReviewedByCurrentUser = Null
        /\ cQualifying # {} =>
              /\ cOut.lastReviewedByCurrentUser = Iso(cLatest)
              /\ cElapsed < FiveDays =>
                    (cOut.status = "re-review"
                        <=> cPR.updated_at[2] > cOut.lastReviewedByCurrentUser[2])

\* C24 witness: a stagnant pull request with two reviews of the viewer, the
\* later one listed first.
C24_Witness ==
    /\ cPc = "done"
    /\ cOut.status = "stagnant"
    /\ Len(cReviews) = 2
    /\ cQualifying = {1, 2}
    /\ cReviews[1].submitted_at[2] > cReviews[2].submitted_at[2]
    /\ cOut.lastReviewedByCurrentUser = cReviews[1].submitted_at

\* C26: a draft pull request updated less than 5 days ago is "re-review".
C26_DraftIsReReview ==
    (cPc = "done" /\ cPR.draft /\ cElapsed < FiveDays) =>
        cOut.status = "re-review"

-----------------------------------------------------------------------------
(* Properties of formatRelativeTime (SpecFormat) *)

\* The label the thresholds give for s whole elapsed seconds.
LabelFor(s) ==
    CASE s < 60 -> RelLabel(0, "just now")
      [] s >= 60 /\ s < 60 * 60 -> RelLabel(s \div 60, "m ago")
      [] s >= 60 * 60 /\ s < SecondsPerDay -> RelLabel(s \div (60 * 60), "h ago")
      [] s >= SecondsPerDay /\ s < 7 * SecondsPerDay ->
            RelLabel(s \div SecondsPerDay, "d ago")
      [] s >= 7 * SecondsPerDay /\ s < 28 * SecondsPerDay ->
            RelLabel(s \div (7 * SecondsPerDay), "w ago")
      [] s >= 28 * SecondsPerDay ->
            RelLabel((s \div SecondsPerDay) \div 30, "mo ago")

\* C23: for s whole elapsed seconds the label is "just now" below a minute,
\* the whole minutes below an hour, the whole hours below a day, the whole
\* days below a week, the whole weeks below four weeks, and days \div 30
\* months from there on.
C23_LabelByThresholds ==
    fPc = "done" => fOut = LabelFor(fSecs)

\* C38: for an elapsed time of 60 seconds or more the count of the label is
\* at least 1; for a timestamp in the future the label is "just now".
C38_CountAtLeastOne ==
    fPc = "done" =>
        /\ fSecs >= 60 => fOut[2] >= 1
        /\ fSecs < 0 => fOut = RelLabel(0, "just now")

\* C23 witness: 29 days and 999 milliseconds, past the weeks and short of a
\* month of 30 days.
C23_Witness ==
    /\ fPc = "done"
    /\ fSecs = 29 * SecondsPerDay
    /\ fMs = 999
    /\ fOut = RelLabel(0, "mo ago")

-----------------------------------------------------------------------------
(* Properties of the token storage (SpecStorage) *)

\* A value of localStorage is a token in plain text.
PlainToken(v) == v \in {Str(t) : t \in (StoredTokens \cup {LegacyToken}) \ {""}}

\* C27: once migratePlainTextToken has completed, no entry of localStorage is
\* a token in plain text; the key "github_token" is absent.
C27_NoPlainTextAfterMigration ==
    sLast.migrated =>
        /\ storage.plain = Null
        /\ ~PlainToken(storage.enc)
        /\ ~PlainToken(storage.pass)

\* C28 as stated: getStoredToken() right after storeTokenSecurely(t) returns
\* t and writes nothing, for every string t.
C28_StoreThenGetReturnsToken ==
    [][(sLast.op = "storeTokenSecurely" /\ sLast'.op = "getStoredToken") =>
            /\ sLast'.ret = sLast.arg
            /\ storage' = storage]_vars

\* C28: getStoredToken() right after storeTokenSecurely(t), the browser
\* unchanged in between, returns t and leaves both keys as they were, for
\* every token t that is not the empty string.
C28_StoreThenGetReturnsNonEmptyToken ==
    [][(/\ sLast.op = "storeTokenSecurely"
        /\ sLast.arg # Str("")
        /\ sLast'.op = "getStoredToken") =>
            /\ sLast'.ret = sLast.arg
            /\ storage' = storage]_vars

\* C28 witness: a token stored with the fallback cipher and read back.
C28_Witness ==
    /\ sLast.op = "getStoredToken"
    /\ sLast.ret = Str("ghp_token")
    /\ ~secure
    /\ storage.enc = <<"xor", "ghp_token", fingerprint>>
    /\ storage.pass = Str(fingerprint)

\* What getStoredToken found, and whether decryption throws with the stored
\* passphrase and with the regenerated one.
KeyMissing == sLast.before.enc = Null \/ sLast.before.pass = Null
KeyEmpty == ~KeyMissing /\ (sLast.before.enc = Str("") \/ sLast.before.pass = Str(""))
StoredPassphraseFails ==
    decryptTokenFallback(sLast.before.enc, sLast.before.pass[2], secure).threw
RegeneratedPassphraseFails ==
    decryptTokenFallback(sLast.before.enc, fingerprint, secure).threw

C32_WitnessCleared ==
    /\ sLast.op = "getStoredToken"
    /\ sLast.before.enc # Null
    /\ sLast.before.pass # Null
    /\ sLast.ret = Null
    /\ storage.enc = Null

-----------------------------------------------------------------------------
(* Properties of the settings dialog (SpecSettings) *)

NoDuplicates(list) ==
    \A i, j \in 1..Len(list) : list[i] = list[j] => i = j

\* C34: after every step the watched list has no duplicates; an add that
\* changes the list appends the trimmed input, which matches the pattern; an
\* add that shows a message leaves the list as it was; a removed repository
\* is not in the list.
C34_AddRemoveKeepListWellFormed ==
    [][/\ NoDuplicates(watchedRepos')
       /\ (settingsEvent'.op = "add" /\ watchedRepos' # watchedRepos) =>
            /\ watchedRepos' = Append(watchedRepos, Trim(newRepo))
            /\ RepoPatternTest(Trim(newRepo))
       /\ (settingsEvent'.op = "add" /\ settingsError' # "") =>
            watchedRepos' = watchedRepos
       /\ settingsEvent'.op = "remove" =>
            ~Includes(watchedRepos', settingsEvent'.arg)]_vars

\* C34 witness: an input with blanks around it was added trimmed, after an
\* add of the same repository had been refused.
C34_Witness ==
    /\ settingsEvent = [op |-> "add", arg |-> " facebook/react "]
    /\ Includes(watchedRepos, "facebook/react")
    /\ Len(watchedRepos) >= 2
    /\ newRepo = ""

\* The repository names the dialog and its message give as examples.
ExampleRepos == {"vercel/next.js", "facebook/react", "microsoft/vscode"}

\* C35: an add of an example name that is not in the list appends it.
C35_ExamplesAreAccepted ==
    [][(/\ settingsEvent'.op = "add"
        /\ newRepo \in ExampleRepos
        /\ ~Includes(watchedRepos, newRepo)) =>
            watchedRepos' = Append(watchedRepos, newRepo)]_vars

-----------------------------------------------------------------------------
(* Properties of PRDataTable (SpecTable) *)

\* C37: the page is between 1 and max(1, totalPages), and the page shown has
\* a row whenever the list has one.
C37_PageWithinBounds ==
    /\ 1 <= currentPage
    /\ currentPage <= Max(1, totalPages(tablePrs))
    /\ tablePrs # <<>> => currentPRs(tablePrs, currentPage) # <<>>

-----------------------------------------------------------------------------
(* Properties of the PRDashboard component (SpecDashboard) *)

\* C29: a token that was stored at the mount is the dashboard's token, and
\* still stored, once loadData has finished and no save is under way (the
\* user not having acted meanwhile).
C29_StoredTokenSurvivesMount ==
    (/\ storedAtMount # Null
     /\ loadData.pc = "loaded"
     /\ saving = {}
     /\ handled = 0) =>
        /\ githubToken = storedAtMount
        /\ getStoredToken(storage, fingerprint, secure).ret = storedAtMount

\* C25: the interval is set exactly while a token is set and a repository is
\* watched; every tick starts a fetch with that token for that list.
C25_TimerFetchesWhileTokenAndRepos ==
    [][/\ loadData'.pc # "unmounted" =>
            (interval'.armed <=> Starts(githubToken', watchedRepos'))
       /\ event' = "tick" =>
            /\ Starts(githubToken, watchedRepos)
            /\ fetches' = Append(fetches, [token |-> githubToken,
                                           repos |-> watchedRepos,
                                           stage |-> "user"])
            /\ isLoading']_vars

\* C25 witness: a tick started a fetch while an earlier one was under way.
C25_Witness ==
    /\ event = "tick"
    /\ Len(fetches) = 2
    /\ fetches[1].stage = "user"
    /\ fetches[2] = [token |-> githubToken, repos |-> watchedRepos, stage |-> "user"]

\* C30: when no fetch is under way and the one started last succeeded, the
\* list shown is the result of that fetch.
C30_ListIsOfLastStartedFetch ==
    (/\ fetches # <<>>
     /\ \A n \in 1..Len(fetches) : fetches[n].stage \in {"done", "failed"}
     /\ fetches[Len(fetches)].stage = "done") =>
        prsShown = FetchResult(Len(fetches), fetches[Len(fetches)].repos)

\* C36: while the dashboard shows the list (a token is set), every record of
\* the filtered list is of a repository in the watched list.
C36_FilteredAreWatched ==
    TruthyString(githubToken) =>
        \A k \in 1..Len(filteredPRs(prsShown, watchedRepos)) :
            \E i \in 1..Len(watchedRepos) :
                watchedRepos[i] = filteredPRs(prsShown, watchedRepos)[k].repo

\* The fetch started n-th fails in this step.
FailsNow(n) ==
    /\ fetches[n].stage \in {"user", "pulls"}
    /\ Len(fetches') = Len(fetches)
    /\ fetches'[n].stage = "failed"

\* C31: in the step in which a fetch fails, error becomes a message,
\* isLoading becomes false, and the list shown and lastRefresh stay.
C31_FailedFetchKeepsList ==
    [][(\E n \in 1..Len(fetches) : FailsNow(n)) =>
            /\ errorText' # Null
            /\ ~isLoading'
            /\ prsShown' = prsShown
            /\ lastRefresh' = lastRefresh]_vars

\* C31 witness: a second fetch failed after the first one had filled the list.
C31_Witness ==
    /\ Len(fetches) = 2
    /\ fetches[1].stage = "done"
    /\ fetches[2].stage = "failed"
    /\ prsShown = FetchResult(1, fetches[1].repos)
    /\ prsShown # <<>>
    /\ lastRefresh = 1
    /\ errorText # Null
    /\ ~isLoading

-----------------------------------------------------------------------------
(* Properties of a fetchPullRequests pass (Spec) *)

NoRequests == [user |-> 0, pulls |-> 0, reviews |-> 0]

\* The list request of repos[i] failed: a non-2xx response or a thrown error.
ListFailed(i) ==
    branch[i].st = "rejected" /\ branch[i].resp.kind \in {"http", "throws"}

\* The review request of the j-th pull request of repos[i] failed.
ReviewFailed(i, j) ==
    /\ branch[i].resp.kind = "ok"
    /\ j \in branch[i].revDone
    /\ branch[i].revResp[j].kind \in {"http", "throws"}

\* The records of the output for the j-th pull request of repos[i]'s list.
OutputOf(i, j) ==
    {k \in 1..Len(returned) :
        /\ returned[k].repo = repos[i]
        /\ returned[k].number = branch[i].resp.body[j].number}

\* The pull requests the provider listed, in the order of repos and of each list.
ProviderOrder ==
    Flatten([i \in 1..Len(repos) |->
        [j \in 1..Len(branch[i].resp.body) |->
            [repo |-> repos[i], number |-> branch[i].resp.body[j].number]]])

ProviderIndex(p) ==
    CHOOSE k \in 1..Len(ProviderOrder) :
        ProviderOrder[k] = [repo |-> p.repo, number |-> p.number]

\* C2: the list a pass returns is ordered by updatedAtTimestamp descending, and
\* records with equal updatedAtTimestamp keep the provider's order.
C2_SortedByUpdatedAtDesc ==
    phase = "Done" =>
        \A k, l \in 1..Len(returned) :
            k < l =>
                \/ returned[k].updatedAtTimestamp[2] > returned[l].updatedAtTimestamp[2]
                \/ /\ returned[k].updatedAtTimestamp[2] = returned[l].updatedAtTimestamp[2]
                   /\ ProviderIndex(returned[k]) < ProviderIndex(returned[l])

\* C3: once the list request of one repository has failed, the pass has thrown
\* and returns nothing, whatever the other repositories answered.
C3_ListFailureFailsPass ==
    (\E i \in 1..Len(branch) : ListFailed(i)) =>
        /\ phase = "Failed"
        /\ thrown.name = "GitHubAPIError"
        /\ returned = <<>>

\* C3 witness: one repository's list request failed and another repository's
\* callback resolved with processed pull requests.
C3_Witness ==
    /\ phase = "Failed"
    /\ \E i, k \in 1..Len(branch) :
          /\ ListFailed(i)
          /\ branch[k].st = "resolved"
          /\ Len(branch[k].out) > 0

\* C4: a pull request whose review request failed is in the output of the
\* pass, with lastReviewedByCurrentUser null.
C4_ReviewFailureKeepsPRWithNull ==
    phase = "Done" =>
        \A i \in 1..Len(branch) : \A j \in 1..Len(branch[i].prs) :
            ReviewFailed(i, j) =>
                /\ OutputOf(i, j) # {}
                /\ \A k \in OutputOf(i, j) :
                      returned[k].lastReviewedByCurrentUser = Null

\* C5: a pull request whose review request failed is classified "pending" or
\* "stagnant" only.
C5_ReviewFailureOnlyPendingOrStagnant ==
    \A i \in 1..Len(branch) :
        branch[i].st = "resolved" =>
            \A j \in 1..Len(branch[i].out) :
                ReviewFailed(i, j) =>
                    branch[i].out[j].status \in {"pending", "stagnant"}

\* C6: called with an empty token, the pass has thrown a GitHubAPIError of
\* status 401 and no request was sent, for every repository list.
C6_EmptyTokenThrows401 ==
    (phase # "Idle" /\ token = "") =>
        /\ phase = "Failed"
        /\ thrown.name = "GitHubAPIError"
        /\ thrown.status = 401
        /\ reqCount = NoRequests

\* C6 witness: the call with an empty token and the empty repository list.
C6_Witness ==
    /\ phase = "Failed"
    /\ token = ""
    /\ repos = <<>>
    /\ thrown.status = 401

\* C7: called with a token and the empty repository list, the pass has returned
\* the empty list and no request was sent.
C7_EmptyReposReturnsEmpty ==
    (phase # "Idle" /\ token # "" /\ repos = <<>>) =>
        /\ phase = "Done"
        /\ returned = <<>>
        /\ thrown = NoError
        /\ reqCount = NoRequests

\* C7 witness: the call with a token and the empty repository list.
C7_Witness ==
    /\ phase = "Done"
    /\ token # ""
    /\ repos = <<>>

\* The viewer has a review on pr that is not dismissed and was submitted.
ReviewedBy(pr, login) ==
    /\ pr.reviews # Undefined
    /\ \E n \in 1..Len(pr.reviews[2]) :
          /\ pr.reviews[2][n].state # "DISMISSED"
          /\ pr.reviews[2][n].submitted_at # Null
          /\ pr.reviews[2][n].user.login = login

\* C8: a pass with a token and repositories sends exactly one viewer request,
\* sends no list or review request before it has settled, and correlates every
\* pull request with the login that request answered.
C8_OneViewerForThePass ==
    (token # "" /\ Len(repos) > 0) =>
        /\ reqCount.user = 1
        /\ reqCount.pulls + reqCount.reviews > 0 =>
              viewerReq.st = "settled" /\ viewerReq.resp.kind = "ok"
        /\ \A i \in 1..Len(branch) :
              branch[i].st = "resolved" =>
                  \A k \in 1..Len(branch[i].out) :
                      (branch[i].out[k].lastReviewedByCurrentUser # Null)
                          <=> ReviewedBy(branch[i].prs[k], viewerReq.resp.body.login)

\* C8 witness: a finished pass over two repositories, a pull request of each
\* correlated with a review of the viewer, after one viewer request.
C8_Witness ==
    /\ phase = "Done"
    /\ reqCount.user = 1
    /\ \E k, l \in 1..Len(returned) :
          /\ returned[k].repo # returned[l].repo
          /\ returned[k].lastReviewedByCurrentUser # Null
          /\ returned[l].lastReviewedByCurrentUser # Null

\* C9: once the viewer request has failed, the pass has thrown a GitHubAPIError
\* with the provider's status (500 when the request itself threw) and no list
\* or review request is sent.
C9_ViewerFailureFailsPass ==
    (viewerReq.st = "settled" /\ viewerReq.resp.kind # "ok") =>
        /\ phase = "Failed"
        /\ thrown.name = "GitHubAPIError"
        /\ thrown.status = IF viewerReq.resp.kind = "http" THEN viewerReq.resp.status
                           ELSE 500
        /\ reqCount.pulls = 0
        /\ reqCount.reviews = 0
        /\ branch = <<>>

\* C9 witness: the provider rejected the token with 401.
C9_Witness ==
    /\ viewerReq.st = "settled"
    /\ viewerReq.resp.kind = "http"
    /\ viewerReq.resp.status = 401
    /\ phase = "Failed"
    /\ thrown.status = 401

\* The list request of repos[i] was answered with a non-2xx response, and no
\* other callback of repos.map has thrown.
OnlyListFailure(i) ==
    /\ ListFailed(i)
    /\ branch[i].resp.kind = "http"
    /\ \A k \in 1..Len(branch) : k # i => branch[k].st # "rejected"

\* The message of the error names the repository.
NamesRepo(error, repo) ==
    /\ error.message[1] \in {"Failed to fetch PRs for ", "Invalid repository format: "}
    /\ error.message[2] = repo

\* C15: the error thrown for a failed list request names the repository and
\* carries the response's status and, when the X-RateLimit-Remaining header is
\* present, the quota it writes, with or without a message in the body.
C15_ListErrorCarriesRepoStatusQuota ==
    \A i \in 1..Len(branch) :
        (phase = "Failed" /\ OnlyListFailure(i)) =>
            /\ thrown.name = "GitHubAPIError"
            /\ NamesRepo(thrown, repos[i])
            /\ thrown.status = branch[i].resp.status
            /\ \A q \in DOMAIN Decimal :
                  branch[i].resp.rateLimit = Str(Decimal[q]) =>
                      thrown.rateLimitRemaining = Num(q)

\* C16: once a list request has failed, no step of the pass sends a request.
C16_NoRequestAfterListFailure ==
    [][(\E i \in 1..Len(branch) : ListFailed(i)) => reqCount' = reqCount]_vars

\* The callback of repos[i] has a request in flight.
Outstanding(i) == branch[i].st \in {"list", "reviews"}

\* C17: a pass that has returned or thrown has no request in flight.
C17_FinishedOnlyWhenAllSettled ==
    phase \in {"Done", "Failed"} =>
        /\ viewerReq.st # "inflight"
        /\ \A i \in 1..Len(branch) : ~Outstanding(i)

\* The callback of repos[i] is bound to throw: the reference is malformed or
\* the provider's answer to its list request, settled or not, is a failure.
WillReject(i) == ~ValidRepo(repos[i]) \/ branch[i].resp.kind # "ok"

\* The status of the error that callback makes the pass throw.
RejectStatus(i) ==
    IF ValidRepo(repos[i]) /\ branch[i].resp.kind = "http"
    THEN branch[i].resp.status ELSE 500

\* C18: the error a pass throws is a function of the provider's responses and
\* not of the order they arrive in: with every order it is the error of the
\* first repository, in the order of repos, whose callback throws (a malformed
\* reference throws before any response arrives).
C18_ResultIndependentOfCompletionOrder ==
    (phase = "Failed" /\ branch # <<>>) =>
        LET malformed == {i \in 1..Len(branch) : ~ValidRepo(repos[i])}
            rejecting == IF malformed # {} THEN malformed
                         ELSE {i \in 1..Len(branch) : WillReject(i)}
            first == CHOOSE i \in rejecting : \A k \in rejecting : i <= k
        IN thrown.status = RejectStatus(first)

\* The phases in their order; Aggregating, the flatten and the sort, lies
\* within the step that ends in Done.
PhaseRank ==
    CASE phase = "Idle" -> 0
      [] phase = "FetchingViewer" -> 1
      [] phase = "FetchingRepos" -> 2
      [] phase \in {"Done", "Failed"} -> 4

\* C19: the phase of a pass never goes back, Done and Failed are final and
\* exclude each other (a list is returned or an error is thrown, never both),
\* and with every request settling in the end, the pass ends in one of them.
C19_PhasesInOrderAndOneEnd ==
    /\ [][/\ PhaseRank' >= PhaseRank
          /\ phase \in {"Done", "Failed"} =>
                /\ phase' = phase
                /\ returned' = returned
                /\ thrown' = thrown]_vars
    /\ [](phase = "Done" => thrown = NoError)
    /\ [](phase = "Failed" => thrown # NoError /\ returned = <<>>)
    /\ <>(phase \in {"Done", "Failed"})

\* C19 witness: a pass that has gone through every phase and returned the
\* pull requests of two repositories.
C19_Witness ==
    /\ phase = "Done"
    /\ Len(repos) = 2
    /\ viewerReq.st = "settled"
    /\ \A i \in 1..Len(branch) : branch[i].st = "resolved" /\ Len(branch[i].out) > 0
    /\ thrown = NoError

\* The repository and the number of a record of the output.
Identity(p) == [repo |-> p.repo, number |-> p.number]

\* C20: the list a pass returns has one record for each pull request of each
\* repository's list response, no more, and the record's repo is the reference
\* of the repository that listed it.
C20_OneRecordPerListedPR ==
    phase = "Done" =>
        /\ Len(returned) = Len(ProviderOrder)
        /\ \A k \in 1..Len(ProviderOrder) :
              Cardinality({l \in 1..Len(returned) :
                              Identity(returned[l]) = ProviderOrder[k]})
                  = Cardinality({l \in 1..Len(ProviderOrder) :
                                    ProviderOrder[l] = ProviderOrder[k]})

\* C20 witness: two repositories that list a pull request with the same
\* number, and a second one in the first repository.
C20_Witness ==
    /\ phase = "Done"
    /\ Len(returned) = 3
    /\ \E k, l \in 1..Len(returned) :
          /\ returned[k].number = returned[l].number
          /\ returned[k].repo = RepoAlpha
          /\ returned[l].repo = RepoBeta

Malformed(repo) == Len(repo) # 2 \/ repo[1] = "" \/ repo[2] = ""

\* C22: once the viewer is known, an entry of repos that is not two non-empty
\* segments has made the pass fail, and no list or review request was sent
\* for it.
C22_MalformedRepoFailsWithoutRequest ==
    \A i \in 1..Len(branch) :
        Malformed(repos[i]) =>
            /\ phase = "Failed"
            /\ branch[i].st = "rejected"
            /\ branch[i].resp = NoResponse

\* C33: a pass that failed threw a GitHubAPIError: status 401 for an empty
\* token, the provider's status for a non-2xx viewer or list response, 500
\* for a network failure, an unparsable body or a malformed reference.
C33_EveryFailureIsGitHubAPIError ==
    phase = "Failed" =>
        /\ thrown.name = "GitHubAPIError"
        /\ IF token = "" THEN thrown.status = 401
           ELSE IF viewerReq.resp.kind = "http"
           THEN thrown.status = viewerReq.resp.status
           ELSE IF viewerReq.resp.kind = "throws" THEN thrown.status = 500
           ELSE thrown.status \in {RejectStatus(i) :
                                     i \in {k \in 1..Len(branch) :
                                              branch[k].st = "rejected"}}

\* C33 witness: the viewer was fetched, a list request failed on the network,
\* and the pass threw status 500.
C33_Witness ==
    /\ phase = "Failed"
    /\ viewerReq.resp.kind = "ok"
    /\ \A i \in 1..Len(repos) : ValidRepo(repos[i])
    /\ \E i \in 1..Len(branch) :
          branch[i].st = "rejected" /\ branch[i].resp.kind = "throws"
    /\ thrown.name = "GitHubAPIError"
    /\ thrown.status = 500

====
